---- MODULE Spec2Model ----
(***************************************************************************)
(* A model of api/function_app.py of the house flip analyzer: the TTL      *)
(* caches, the retrying census fetch, the scoring engine, the population   *)
(* weighted aggregation, the market lookup and the analyze handler.        *)
(*                                                                         *)
(* Numbers.  Python floats are modelled in fixed point:                    *)
(*   - a sub-score in [0,1] is an integer in 0..ONE (ONE stands for 1.0);  *)
(*   - a score in points is kept in tenths of a point (round(x, 1));       *)
(*   - a vacancy percentage is kept in tenths of a percent (round(x, 1));  *)
(*   - a gap ratio that was rounded (round(x, 2)) is kept in hundredths;   *)
(*   - a school rating is kept in tenths.                                  *)
(* Every comparison with a threshold is made exactly, by cross             *)
(* multiplication.  An Optional value is <<>> (None) or <<v>>.             *)
(***************************************************************************)
EXTENDS Integers, Sequences, FiniteSets, TLC

VARIABLES
    \* --- scoring engine, as a pure function applied to drawn inputs
    tract,          \* the tract dict handed to score_tract_flip_potential
    price_max,      \* the price_max argument
    scored,         \* None, or <<the dict the function returned>>
    \* --- aggregation engine, as a pure function applied to drawn inputs
    rows,           \* the list of tract dicts handed to aggregate_group
    agg,            \* None, or <<the dict aggregate_group returned>>
    avgs,           \* None, or <<what pop_weighted_avg returned, per metric>>
    \* --- process-wide state: the wall clock and the in-memory caches
    now,            \* datetime.utcnow(), in hours
    ticks,          \* how many times the model advanced the clock
    _census_cache,          \* county_fips -> None | <<{"data", "cached_at"}>>
    _listings_cache,        \* key -> None | <<{"ts", "data"}>>
    _tract_boundaries_cache, \* geoid -> None | <<{"ts", "polygon"}>>
    _location_id_cache,     \* cache_key -> None | <<{"ts", "location_data"}>>
    lookup,         \* the cache call just made, if the step was one: the key,
                    \* the value stored (a set) or returned (a lookup), and the
                    \* age of the entry the call found
    _dom_cache,     \* zip_code -> None (no such key) | <<None | <<days>>>>
    RAPIDAPI_KEY,   \* whether the environment configures the market API
    \* --- one run of analyze_neighborhoods
    pc,             \* where the handler stands
    requests,       \* how many requests the handler has started
    req,            \* the parsed parameters of the request
    ci,             \* the index of the next county of the loop
    fetch,          \* the last call of fetch_census_data_with_retry
    fetched,        \* what each turn of the county loop got, in order
    all_tracts,     \* the list the county loop fills
    errors,         \* the errors list
    neighborhoods,  \* the list of neighborhood dicts
    enrich,         \* the enrichment loop: its slice, index and counters
    market,         \* the last call of get_market_stats_for_zip
    response,       \* None, or <<the response returned>>
    \* --- the listings endpoint, and lookups running in two threads
    listings,       \* the last call of listings_endpoint
    threads         \* per thread: where its get_cached_census_data stands

scoreVars == <<tract, price_max, scored>>
aggVars == <<rows, agg, avgs>>
clockVars == <<now, ticks>>
cacheVars == <<_census_cache, _listings_cache, _tract_boundaries_cache,
               _location_id_cache, lookup>>
anVars == <<_dom_cache, RAPIDAPI_KEY, pc, requests, req, ci, fetch, fetched, all_tracts,
            errors, neighborhoods, enrich, market, response, listings, threads>>
vars == <<tract, price_max, scored, rows, agg, avgs, now, ticks, _census_cache,
          _listings_cache, _tract_boundaries_cache, _location_id_cache, lookup,
          _dom_cache, RAPIDAPI_KEY, pc, requests, req, ci, fetch, fetched,
          all_tracts, errors, neighborhoods, enrich, market, response, listings,
          threads>>

---------------------------------------------------------------------------
(* Optional values and small arithmetic helpers *)

None == <<>>
Some(v) == <<v>>
\* Python's `x or 0` for an Optional number
Or0(x) == IF x = None THEN 0 ELSE x[1]

Min(a, b) == IF a <= b THEN a ELSE b
Max(a, b) == IF a >= b THEN a ELSE b
Abs(a) == IF a < 0 THEN -a ELSE a

\* round(n / d) to the nearest integer, ties to even (Python's round), d > 0
RoundDiv(n, d) ==
    LET q == n \div d
        r == n - q * d
    IN  IF 2 * r < d THEN q
        ELSE IF 2 * r > d THEN q + 1
        ELSE IF q % 2 = 0 THEN q ELSE q + 1

\* the fixed-point representation of 1.0
ONE == 100 * 100

---------------------------------------------------------------------------
(* Static tables (opaque data of the program; a few rows of each) *)

\* NEIGHBORHOOD_SCHOOL_RATINGS, ratings in tenths; a missing key is None
NEIGHBORHOOD_SCHOOL_RATINGS(neighborhood) ==
    CASE neighborhood = "Zionsville" -> Some(90)
      [] neighborhood = "Lebanon" -> Some(70)
      [] neighborhood = "Noblesville" -> Some(85)
      [] neighborhood = "Westfield" -> Some(85)
      [] neighborhood = "Broad Ripple" -> Some(65)
      [] neighborhood = "Downtown" -> Some(50)
      [] neighborhood = "Fountain Square" -> Some(55)
      [] neighborhood = "Near Eastside" -> Some(50)
      [] neighborhood = "Anderson - West Side" -> Some(50)
      [] neighborhood = "Boone County - Whitestown area" -> Some(75)
      [] neighborhood = "Hancock County - Outlying" -> Some(65)
      [] OTHER -> None

STARBUCKS_RECENT_OPENINGS ==
    {"Mooresville", "Noblesville", "Westfield", "Zionsville", "Greenfield",
     "New Palestine", "Brownsburg", "Pendleton", "Greenwood", "Anderson",
     "Broad Ripple", "Beech Grove"}

\* city_mappings of has_recent_starbucks
city_mappings(county_name) ==
    CASE county_name = "Hamilton" -> {"Noblesville", "Westfield"}
      [] county_name = "Boone" -> {"Zionsville"}
      [] county_name = "Hancock" -> {"Greenfield", "New Palestine"}
      [] county_name = "Hendricks" -> {"Brownsburg"}
      [] county_name = "Madison" -> {"Pendleton", "Anderson"}
      [] county_name = "Johnson" -> {"Greenwood"}
      [] county_name = "Morgan" -> {"Mooresville"}
      [] OTHER -> {}

\* Python's `city in neighborhood` (substring) on the names the model uses
IsSubstring(city, neighborhood) ==
    \/ city = neighborhood
    \/ city = "Anderson" /\ neighborhood = "Anderson - West Side"

has_recent_starbucks(neighborhood, county_name) ==
    \/ neighborhood \in STARBUCKS_RECENT_OPENINGS
    \/ \E city \in city_mappings(county_name) :
          IsSubstring(city, neighborhood) \/ city \in STARBUCKS_RECENT_OPENINGS

\* CENTRAL_IN_COUNTIES, in the dict's order: <<county_name, county_fips>>
CENTRAL_IN_COUNTIES ==
    <<<<"Boone", "011">>, <<"Hamilton", "057">>, <<"Hancock", "059">>,
      <<"Hendricks", "063">>, <<"Johnson", "081">>, <<"Madison", "095">>,
      <<"Marion", "097">>, <<"Morgan", "109">>, <<"Shelby", "145">>>>

\* GOOGLE_MAPS_NEIGHBORHOODS (tract code -> name); a missing key is None
GOOGLE_MAPS_NEIGHBORHOODS(t) ==
    CASE t = 310104 -> Some("Park 100")
      [] t = 310108 -> Some("Eagle Creek")
      [] t = 391001 -> Some("Downtown")
      [] OTHER -> None

\* TRACT_TO_ZIP_MAPPING.get(county_fips, {}).get(t); a missing key is None
TRACT_TO_ZIP_MAPPING(county_fips, t) ==
    CASE county_fips = "011" /\ t = 810100 -> Some("46052")
      [] county_fips = "011" /\ t = 810200 -> Some("46071")
      [] county_fips = "011" /\ t = 810300 -> Some("46052")
      [] county_fips = "057" /\ t = 110101 -> Some("46060")
      [] county_fips = "057" /\ t = 110102 -> Some("46060")
      [] county_fips = "059" /\ t = 410100 -> Some("46186")
      [] county_fips = "059" /\ t = 410201 -> Some("46055")
      [] county_fips = "097" /\ t = 310104 -> Some("46268")
      [] OTHER -> None

MAX_MARKET_LOOKUPS_DEFAULT == 10
REQUEST_TIMEOUT == 60

\* safe_int: None for a missing or unparsable value and for the negative
\* sentinels of the census API; the raw value is None or <<the number read>>
safe_int(x) ==
    IF x = None THEN None
    ELSE IF x[1] < 0 THEN None
    ELSE Some(x[1])

\* tract_id_human: f"{t[:4]}.{t[4:]}" of the zero-filled 6-digit code
tract_id_human(t) == [head |-> t \div 100, tail |-> t % 100]

\* neighborhood_label; a tract code is the number its 6 digits spell
neighborhood_label(county_name, t) ==
    LET code == t \div 100
        head == t \div 10000
    IN  IF county_name = "Marion"
        THEN IF GOOGLE_MAPS_NEIGHBORHOODS(t) # None THEN GOOGLE_MAPS_NEIGHBORHOODS(t)[1]
             ELSE IF code < 3120 THEN "Near Eastside"
             ELSE IF code < 3140 THEN "Eastside"
             ELSE IF code < 3160 THEN "Far Eastside"
             ELSE IF code < 3180 THEN "Lawrence/Castleton"
             ELSE IF code < 3200 THEN "Broad Ripple/Meridian-Kessler"
             ELSE IF code < 3300 THEN "Near Southeast/Fountain Square"
             ELSE IF code < 3320 THEN "Near Westside/Haughville"
             ELSE IF code < 3380 THEN "Irvington/Warren Park"
             ELSE IF code < 3420 THEN "Near Southside/Garfield Park"
             ELSE IF code < 3480 THEN "Southport/Beech Grove"
             ELSE IF code < 3540 THEN "Perry Township"
             ELSE IF code < 3600 THEN "Decatur/Southwest"
             ELSE IF code < 3680 THEN "Pike Township/Northwest"
             ELSE IF code < 3780 THEN "Washington Township"
             ELSE IF code < 3880 THEN "Lawrence Township"
             ELSE "Wayne Township/Southwest"
        ELSE IF county_name = "Hamilton"
        THEN IF head <= 8 THEN "Noblesville"
             ELSE IF head <= 15 THEN "Westfield"
             ELSE IF head <= 25 THEN "Carmel - North"
             ELSE IF head <= 35 THEN "Carmel - South/Keystone"
             ELSE IF head <= 50 THEN "Fishers - North"
             ELSE IF head <= 70 THEN "Fishers - South/Geist"
             ELSE "Hamilton County - North suburbs"
        ELSE IF county_name = "Hendricks"
        THEN IF head <= 15 THEN "Avon"
             ELSE IF head <= 35 THEN "Plainfield"
             ELSE IF head <= 50 THEN "Brownsburg"
             ELSE "Danville/Hendricks County"
        ELSE IF county_name = "Johnson"
        THEN IF head <= 20 THEN "Greenwood"
             ELSE IF head <= 40 THEN "Franklin"
             ELSE IF head <= 60 THEN "Whiteland/New Whiteland"
             ELSE "Johnson County - South suburbs"
        ELSE IF county_name = "Boone"
        THEN IF head <= 20 THEN "Zionsville"
             ELSE IF head <= 50 THEN "Lebanon"
             ELSE "Boone County - Whitestown area"
        ELSE IF county_name = "Madison"
        THEN IF head <= 10 THEN "Anderson - West Side"
             ELSE IF head <= 20 THEN "Anderson - Downtown/Central"
             ELSE IF head <= 35 THEN "Anderson - East Side"
             ELSE IF head <= 50 THEN "Anderson - South"
             ELSE "Madison County - Pendleton/Chesterfield"
        ELSE IF county_name = "Shelby"
        THEN IF head <= 30 THEN "Shelbyville - Central" ELSE "Shelby County - Outlying"
        ELSE IF county_name = "Morgan"
        THEN IF head <= 30 THEN "Martinsville" ELSE "Morgan County - Outlying"
        ELSE IF county_name = "Hancock"
        THEN IF head <= 30 THEN "Greenfield" ELSE "Hancock County - Outlying"
        ELSE "County"

get_zip_for_tract(county_fips, t) == TRACT_TO_ZIP_MAPPING(county_fips, t)

---------------------------------------------------------------------------
(* IN-MEMORY CACHES.  A dict is a function from the keys the model uses to
   None (no such key) or <<entry>>.  Time is counted in hours. *)

CACHE_DURATION_HOURS == 24
LISTINGS_CACHE_HOURS == 6
LOCATION_ID_CACHE_DAYS == 30
TRACT_BOUNDARY_CACHE_DAYS == 30

\* timedelta(hours=h) and timedelta(days=d), in hours
timedelta_hours(h) == h
timedelta_days(d) == d * 24

\* datetime.isoformat() and datetime.fromisoformat(): the text form is the
\* date and the time of day
isoformat(t) == [date |-> t \div 24, time |-> t % 24]
fromisoformat(text) == text.date * 24 + text.time

\* a lookup that hands back whatever is stored, however old (a mutant of
\* get_cached_census_data)
get_cached_census_data_no_expiry(cache, county_fips, t) ==
    IF cache[county_fips] = None THEN [ret |-> None, cache |-> cache]
    ELSE [ret |-> Some(cache[county_fips][1].data), cache |-> cache]

\* returns the value handed back and the dict as the call leaves it
get_cached_census_data(cache, county_fips, t) ==
    IF cache[county_fips] = None THEN [ret |-> None, cache |-> cache]
    ELSE LET cache_entry == cache[county_fips][1]
             cache_time == fromisoformat(cache_entry.cached_at)
         IN  IF t - cache_time > timedelta_hours(CACHE_DURATION_HOURS)
             THEN [ret |-> None, cache |-> [cache EXCEPT ![county_fips] = None]]
             ELSE [ret |-> Some(cache_entry.data), cache |-> cache]

\* a store that keeps nothing (a mutant of cache_census_data)
cache_census_data_dropped(cache, county_fips, data, t) == cache

cache_census_data(cache, county_fips, data, t) ==
    [cache EXCEPT ![county_fips] = Some([data |-> data, cached_at |-> isoformat(t)])]

_cache_get_listings(cache, zip_code, t) ==
    IF cache[zip_code] = None THEN [ret |-> None, cache |-> cache]
    ELSE LET entry == cache[zip_code][1]
             ts == fromisoformat(entry.ts)
         IN  IF t - ts > timedelta_hours(LISTINGS_CACHE_HOURS)
             THEN [ret |-> None, cache |-> [cache EXCEPT ![zip_code] = None]]
             ELSE [ret |-> Some(entry.data), cache |-> cache]

\* a store that updates the data of an entry it finds and keeps the entry's
\* timestamp (a mutant of _cache_set_listings)
_cache_set_listings_merged(cache, zip_code, data, t) ==
    IF cache[zip_code] = None
    THEN [cache EXCEPT ![zip_code] = Some([ts |-> isoformat(t), data |-> data])]
    ELSE [cache EXCEPT ![zip_code] = Some([ts |-> cache[zip_code][1].ts, data |-> data])]

_cache_set_listings(cache, zip_code, data, t) ==
    [cache EXCEPT ![zip_code] = Some([ts |-> isoformat(t), data |-> data])]

_cache_get_tract_boundary(cache, tract_geoid, t) ==
    IF cache[tract_geoid] = None THEN [ret |-> None, cache |-> cache]
    ELSE LET entry == cache[tract_geoid][1]
             ts == fromisoformat(entry.ts)
         IN  IF t - ts > timedelta_days(TRACT_BOUNDARY_CACHE_DAYS)
             THEN [ret |-> None, cache |-> [cache EXCEPT ![tract_geoid] = None]]
             ELSE [ret |-> Some(entry.polygon), cache |-> cache]

_cache_set_tract_boundary(cache, tract_geoid, polygon, t) ==
    [cache EXCEPT ![tract_geoid] = Some([ts |-> isoformat(t), polygon |-> polygon])]

\* the outcomes of the autocomplete call of resolve_neighborhood_to_location_id:
\* a matching result (with its location data), no matching result, an exception
\* resolve_neighborhood_to_location_id: hit says whether the value came from
\* the cache
resolve_neighborhood_to_location_id(cache, cache_key, t, outcome) ==
    IF /\ cache[cache_key] # None
       /\ t - fromisoformat(cache[cache_key][1].ts) < timedelta_days(LOCATION_ID_CACHE_DAYS)
    THEN [ret |-> Some(cache[cache_key][1].location_data), cache |-> cache, hit |-> TRUE]
    ELSE IF outcome.kind = "match"
    THEN [ret |-> Some(outcome.location_data),
          cache |-> [cache EXCEPT ![cache_key] =
                        Some([ts |-> isoformat(t), location_data |-> outcome.location_data])],
          hit |-> FALSE]
    ELSE [ret |-> None, cache |-> cache, hit |-> FALSE]

---------------------------------------------------------------------------
(* THE RETRYING CENSUS FETCH: fetch_census_data_with_retry *)

\* the default of the max_retries parameter
max_retries == 3

\* a pause of one second whatever the attempt (a mutant of Pow2)
FlatBackoff(n) == 1

\* 2 ** attempt
Pow2(n) == 2 ^ n

\* What requests.get does on one attempt: it raises (exc is the exception
\* class) or it answers with a status code and a JSON body.  A body is a JSON
\* array (is_list, with its items) or a JSON scalar.
Raises(exc) == [exc |-> exc, status |-> 0, body |-> [is_list |-> TRUE, items |-> <<>>]]
Answers(status, body) == [exc |-> "", status |-> status, body |-> body]
JsonArray(items) == [is_list |-> TRUE, items |-> items]
JsonScalar == [is_list |-> FALSE, items |-> <<>>]

\* r.raise_for_status() raises HTTPError, a RequestException, for 4xx and 5xx
raise_for_status(r) == r.status >= 400

\* a loop that treats a response without data rows like a 503 and tries
\* again (a mutant of fetch_attempts)
RECURSIVE fetch_attempts_retrying_empty(_, _, _, _, _, _)
fetch_attempts_retrying_empty(cache, county_fips, answers, attempt, t, calls) ==
    IF attempt >= max_retries
    THEN [ret |-> None, raised |-> "", cache |-> cache, calls |-> calls]
    ELSE
    LET r == answers[attempt + 1]
        call(slept) == [timeout |-> REQUEST_TIMEOUT * (attempt + 1), slept |-> slept]
    IN  IF r.exc = "" /\ r.status < 400 /\ r.body.is_list /\ Len(r.body.items) >= 2
        THEN [ret |-> Some(r.body.items), raised |-> "",
              cache |-> cache_census_data(cache, county_fips, r.body.items, t),
              calls |-> Append(calls, call(0))]
        ELSE IF attempt < max_retries - 1 /\ attempt + 1 < Len(answers)
        THEN fetch_attempts_retrying_empty(cache, county_fips, answers, attempt + 1, t,
                                           Append(calls, call(Pow2(attempt))))
        ELSE [ret |-> None, raised |-> "", cache |-> cache,
              calls |-> Append(calls, call(0))]

\* The attempts of the loop from `attempt` on.  answers[i] is what the i-th
\* requests.get does.  calls lists, per requests.get made, the timeout passed
\* and the seconds slept after it; raised is the exception that leaves the
\* function ("" when it returns).
RECURSIVE fetch_attempts(_, _, _, _, _, _)
fetch_attempts(cache, county_fips, answers, attempt, t, calls) ==
    IF attempt >= max_retries
    THEN [ret |-> None, raised |-> "", cache |-> cache, calls |-> calls]
    ELSE
    LET timeout == REQUEST_TIMEOUT * (attempt + 1)
        r == answers[attempt + 1]
        call(slept) == [timeout |-> timeout, slept |-> slept]
        retry == IF attempt < max_retries - 1
                 THEN fetch_attempts(cache, county_fips, answers, attempt + 1, t,
                                     Append(calls, call(Pow2(attempt))))
                 ELSE [ret |-> None, raised |-> "", cache |-> cache,
                       calls |-> Append(calls, call(0))]
    IN  IF r.exc = "Timeout" THEN retry
        ELSE IF r.exc # "" THEN retry                \* a RequestException
        ELSE IF r.status = 503 THEN retry
        ELSE IF raise_for_status(r) THEN retry       \* HTTPError
        ELSE IF ~r.body.is_list
        THEN \* len() of a number: a TypeError, which no except clause names
             [ret |-> None, raised |-> "TypeError", cache |-> cache,
              calls |-> Append(calls, call(0))]
        ELSE IF r.body.items = <<>> \/ Len(r.body.items) < 2
        THEN [ret |-> None, raised |-> "", cache |-> cache,
              calls |-> Append(calls, call(0))]
        ELSE [ret |-> Some(r.body.items), raised |-> "",
              cache |-> cache_census_data(cache, county_fips, r.body.items, t),
              calls |-> Append(calls, call(0))]

\* a fetch that gives up after the first failed attempt (a mutant of
\* fetch_census_data_with_retry)
fetch_census_data_without_retry(cache, county_fips, answers, t) ==
    LET cached == get_cached_census_data(cache, county_fips, t)
        only == <<answers[1], answers[1], answers[1]>>
    IN  IF cached.ret # None
        THEN [ret |-> cached.ret, raised |-> "", cache |-> cached.cache, calls |-> <<>>]
        ELSE fetch_attempts(cached.cache, county_fips, only, max_retries - 1, t, <<>>)

fetch_census_data_with_retry(cache, county_fips, answers, t) ==
    LET cached == get_cached_census_data(cache, county_fips, t)
    IN  IF cached.ret # None
        THEN [ret |-> cached.ret, raised |-> "", cache |-> cached.cache, calls |-> <<>>]
        ELSE fetch_attempts(cached.cache, county_fips, answers, 0, t, <<>>)

---------------------------------------------------------------------------
(* SCORING: score_tract_flip_potential *)

clamp01(x) == Max(0, Min(ONE, x))

\* rule names of the insight and warning strings; arg is the number the
\* f-string formats into the text (0 when the text has none)
Msg(rule, arg) == [rule |-> rule, arg |-> arg]

\* a gap score whose band falls off half as fast around the ideal ratio (a
\* mutant of gap_score_of)
gap_score_wide_peak(mhv, pmax) ==
    IF mhv <= 0 THEN 0
    ELSE IF pmax <= 0 THEN 0
    ELSE IF 10 * mhv < 11 * pmax THEN 0
    ELSE IF 10 * mhv <= 16 * pmax
         THEN clamp01(ONE - (Abs(100 * mhv - 135 * pmax) * ONE) \div (50 * pmax))
    ELSE clamp01(Max(0, ONE - ((10 * mhv - 16 * pmax) * ONE) \div (20 * pmax)))

gap_score_of(mhv, pmax) ==
    IF mhv <= 0 THEN 0
    ELSE IF pmax <= 0 THEN 0                       \* gap_ratio = 0 < 1.1
    ELSE IF 10 * mhv < 11 * pmax THEN 0            \* gap_ratio < 1.1
    ELSE IF 10 * mhv <= 16 * pmax                  \* 1.1 <= gap_ratio <= 1.6
         THEN clamp01(ONE - (Abs(100 * mhv - 135 * pmax) * ONE) \div (25 * pmax))
    ELSE clamp01(Max(0, ONE - ((10 * mhv - 16 * pmax) * ONE) \div (20 * pmax)))

\* a vacancy score that measures the distance to the farther band edge (a
\* mutant of vacancy_score_of)
vacancy_score_far_edge(vacancy_pct) ==
    IF 80 <= vacancy_pct /\ vacancy_pct <= 150 THEN ONE
    ELSE clamp01(ONE - (Max(Abs(vacancy_pct - 80), Abs(vacancy_pct - 150)) * ONE) \div 150)

vacancy_score_of(vacancy_pct) ==
    IF 80 <= vacancy_pct /\ vacancy_pct <= 150 THEN ONE
    ELSE clamp01(ONE - (Min(Abs(vacancy_pct - 80), Abs(vacancy_pct - 150)) * ONE) \div 150)

income_score_of(mhv, income) ==
    IF mhv > 0
    THEN LET r == (7 * income * ONE) \div (2 * mhv)   \* income / (mhv / 3.5)
         IN  IF 16 * mhv <= 70 * income /\ 70 * income <= 24 * mhv THEN ONE
             ELSE IF 70 * income < 16 * mhv THEN clamp01(r)
             ELSE clamp01(2 * ONE - r)
    ELSE 0

\* a velocity score that treats an unknown figure as the slowest market (a
\* mutant of velocity_score_of)
velocity_score_unknown_slowest(dom) ==
    IF dom # None /\ dom[1] > 0
    THEN IF dom[1] < 30 THEN ONE
         ELSE IF dom[1] <= 60 THEN (7 * ONE) \div 10
         ELSE IF dom[1] <= 90 THEN (4 * ONE) \div 10
         ELSE (2 * ONE) \div 10
    ELSE (2 * ONE) \div 10

velocity_score_of(dom) ==
    IF dom # None /\ dom[1] > 0
    THEN IF dom[1] < 30 THEN ONE
         ELSE IF dom[1] <= 60 THEN (7 * ONE) \div 10
         ELSE IF dom[1] <= 90 THEN (4 * ONE) \div 10
         ELSE (2 * ONE) \div 10
    ELSE ONE \div 2

\* school bonus in points
school_bonus_of(school_rating) ==
    IF school_rating # None
    THEN IF school_rating[1] >= 80 THEN 5
         ELSE IF school_rating[1] >= 70 THEN 3
         ELSE IF school_rating[1] >= 60 THEN 1
         ELSE IF school_rating[1] <= 50 THEN -2
         ELSE 0
    ELSE 0

\* a composite that caps the weighted sum and adds the bonuses afterwards (a
\* mutant of total_score_of)
total_score_bonus_after_cap(gap_score, vacancy_score, income_score, velocity_score, starbucks_bonus, school_bonus) ==
    LET total == 50 * gap_score + 20 * vacancy_score
                 + 20 * income_score + 10 * velocity_score
    IN  Min(1000, RoundDiv(total, 1000)) + (starbucks_bonus + school_bonus) * 10

\* the composite without the cap at 100 (a mutant of total_score_of)
total_score_uncapped(gap_score, vacancy_score, income_score, velocity_score, starbucks_bonus, school_bonus) ==
    LET total == 50 * gap_score + 20 * vacancy_score
                 + 20 * income_score + 10 * velocity_score
    IN  RoundDiv(total + (starbucks_bonus + school_bonus) * ONE, 1000)

\* min(100.0, round(total * 100 + starbucks_bonus + school_bonus, 1)), tenths
total_score_of(gap_score, vacancy_score, income_score, velocity_score, starbucks_bonus, school_bonus) ==
    LET total == 50 * gap_score + 20 * vacancy_score
                 + 20 * income_score + 10 * velocity_score
    IN  Min(1000, RoundDiv(total + (starbucks_bonus + school_bonus) * ONE, 1000))

tract_insights(school_rating, has_starbucks, mhv, income, vacancy_pct, dom, pmax) ==
    LET gapzero == mhv <= 0 \/ pmax <= 0
        a == IF school_rating # None /\ school_rating[1] # 0 /\ school_rating[1] >= 80
             THEN <<Msg("excellent_schools", school_rating[1])>>
             ELSE IF school_rating # None /\ school_rating[1] # 0 /\ school_rating[1] >= 70
             THEN <<Msg("good_schools", school_rating[1])>>
             ELSE <<>>
        b == IF has_starbucks THEN <<Msg("starbucks", 0)>> ELSE <<>>
        c == IF ~gapzero /\ 13 * pmax <= 10 * mhv /\ 10 * mhv <= 14 * pmax
             THEN <<Msg("strong_profit", 0)>> ELSE <<>>
        d == IF 100 <= vacancy_pct /\ vacancy_pct <= 130
             THEN <<Msg("healthy_inventory", 0)>> ELSE <<>>
        e == IF 7 * income >= 2 * mhv THEN <<Msg("strong_income", 0)>> ELSE <<>>
        f == IF dom # None /\ dom[1] # 0 /\ dom[1] < 40
             THEN <<Msg("fast_market", dom[1])>> ELSE <<>>
    IN  a \o b \o c \o d \o e \o f

tract_warnings(school_rating, mhv, income, vacancy_pct, dom, pmax) ==
    LET gapzero == mhv <= 0 \/ pmax <= 0
        a == IF /\ school_rating # None /\ school_rating[1] # 0
                /\ school_rating[1] < 70 /\ school_rating[1] <= 50
             THEN <<Msg("below_average_schools", school_rating[1])>> ELSE <<>>
        c == IF ~gapzero /\ 13 * pmax <= 10 * mhv /\ 10 * mhv <= 14 * pmax THEN <<>>
             ELSE IF gapzero \/ 10 * mhv < 11 * pmax
             THEN <<Msg("limited_margin", 0)>>
             ELSE IF 10 * mhv > 17 * pmax
             THEN <<Msg("above_budget", 0)>> ELSE <<>>
        d == IF 100 <= vacancy_pct /\ vacancy_pct <= 130 THEN <<>>
             ELSE IF vacancy_pct < 50 THEN <<Msg("limited_inventory", 0)>>
             ELSE IF vacancy_pct > 200 THEN <<Msg("high_vacancy", 0)>> ELSE <<>>
        e == IF 7 * income >= 2 * mhv THEN <<>>
             ELSE IF 9 * income < 2 * mhv THEN <<Msg("income_limits", 0)>> ELSE <<>>
        f == IF dom # None /\ dom[1] # 0 /\ dom[1] < 40 THEN <<>>
             ELSE IF dom # None /\ dom[1] # 0 /\ dom[1] > 90
             THEN <<Msg("slow_market", dom[1])>> ELSE <<>>
    IN  a \o c \o d \o e \o f

score_tract_flip_potential(t, pmax) ==
    LET mhv == Or0(t.median_home_value)
        income == Or0(t.median_income)
        vacancy_pct == t.vacancy_pct
        dom == t.days_on_market
        gap_score == gap_score_of(mhv, pmax)
        vacancy_score == vacancy_score_of(vacancy_pct)
        income_score == income_score_of(mhv, income)
        velocity_score == velocity_score_of(dom)
        has_starbucks == has_recent_starbucks(t.neighborhood, t.county_name)
        starbucks_bonus == IF has_starbucks THEN 3 ELSE 0
        school_rating == NEIGHBORHOOD_SCHOOL_RATINGS(t.neighborhood)
        school_bonus == school_bonus_of(school_rating)
    IN  [score |-> total_score_of(gap_score, vacancy_score, income_score,
                                  velocity_score, starbucks_bonus, school_bonus),
         gap_ratio |-> IF mhv <= 0 \/ pmax <= 0 THEN 0 ELSE RoundDiv(100 * mhv, pmax),
         gap_score |-> RoundDiv(gap_score, 10),
         vacancy_score |-> RoundDiv(vacancy_score, 10),
         income_score |-> RoundDiv(income_score, 10),
         velocity_score |-> RoundDiv(velocity_score, 10),
         starbucks_bonus |-> starbucks_bonus,
         has_starbucks |-> has_starbucks,
         school_rating |-> school_rating,
         school_bonus |-> school_bonus,
         insights |-> tract_insights(school_rating, has_starbucks, mhv, income,
                                     vacancy_pct, dom, pmax),
         warnings |-> tract_warnings(school_rating, mhv, income, vacancy_pct, dom, pmax)]

---------------------------------------------------------------------------
(* GROUP AGGREGATION: pop_weighted_avg and aggregate_group *)

RECURSIVE GCD(_, _)
GCD(a, b) == IF b = 0 THEN a ELSE GCD(b, a % b)

\* the float num / den as an exact fraction in lowest terms (den > 0)
Frac(num, den) ==
    LET g == GCD(Abs(num), den) IN [num |-> num \div g, den |-> den \div g]

\* a loop that also counts the weight of a tract whose value is unknown
\* (a mutant of pwa_loop)
RECURSIVE pwa_loop_all_weights(_, _, _, _)
pwa_loop_all_weights(values, i, num, den) ==
    IF i > Len(values) THEN [num |-> num, den |-> den]
    ELSE IF values[i][1] = None
         THEN pwa_loop_all_weights(values, i + 1, num, den + values[i][2])
    ELSE pwa_loop_all_weights(values, i + 1, num + values[i][1][1] * values[i][2],
                              den + values[i][2])

\* the loop of pop_weighted_avg from index i on; a pair is <<v, w>> with v
\* Optional and w the weight the caller passes (`total_pop or 0`)
RECURSIVE pwa_loop(_, _, _, _)
pwa_loop(values, i, num, den) ==
    IF i > Len(values) THEN [num |-> num, den |-> den]
    ELSE IF values[i][1] = None THEN pwa_loop(values, i + 1, num, den)
    ELSE pwa_loop(values, i + 1, num + values[i][1][1] * values[i][2],
                  den + values[i][2])

pwa_sums(values) == pwa_loop(values, 1, 0, 0)

pop_weighted_avg(values) ==
    LET s == pwa_sums(values)
    IN  IF s.den = 0 THEN None ELSE Some(Frac(s.num, s.den))

\* [(r.get(metric), r.get("total_pop") or 0) for r in rows]
metric_pairs(rs, metric) ==
    [i \in 1..Len(rs) |-> <<rs[i][metric], Or0(rs[i].total_pop)>>]

\* the same list for a metric every row carries as a plain number
number_pairs(rs, metric) ==
    [i \in 1..Len(rs) |-> <<Some(rs[i][metric]), Or0(rs[i].total_pop)>>]

\* rows whose index satisfies a test, in order
RECURSIVE KnownDom(_, _)
KnownDom(rs, i) ==
    IF i > Len(rs) THEN <<>>
    ELSE IF rs[i].days_on_market # None
         THEN <<<<rs[i].days_on_market, Or0(rs[i].total_pop)>>>> \o KnownDom(rs, i + 1)
    ELSE KnownDom(rs, i + 1)

\* a days-on-market aggregate that falls back to 0 (a mutant of dom_aggregate)
dom_aggregate_or_zero(rs) ==
    LET dom_values == KnownDom(rs, 1)
        r == IF dom_values # <<>> THEN pop_weighted_avg(dom_values) ELSE None
    IN  IF r = None THEN Some(Frac(0, 1)) ELSE r

\* dom_values and dom of aggregate_group
dom_aggregate(rs) ==
    LET dom_values == KnownDom(rs, 1)
    IN  IF dom_values # <<>> THEN pop_weighted_avg(dom_values) ELSE None

RECURSIVE SumPop(_, _)
SumPop(rs, i) == IF i > Len(rs) THEN 0 ELSE Or0(rs[i].total_pop) + SumPop(rs, i + 1)

RECURSIVE KnownRatings(_, _)
KnownRatings(rs, i) ==
    IF i > Len(rs) THEN <<>>
    ELSE IF rs[i].school_rating # None
         THEN <<rs[i].school_rating[1]>> \o KnownRatings(rs, i + 1)
    ELSE KnownRatings(rs, i + 1)

RECURSIVE SumSeq(_, _)
SumSeq(q, i) == IF i > Len(q) THEN 0 ELSE q[i] + SumSeq(q, i + 1)

\* school_rating of aggregate_group: the mean of the known ratings
school_rating_aggregate(rs) ==
    LET school_ratings == KnownRatings(rs, 1)
    IN  IF school_ratings # <<>>
        THEN Some(Frac(SumSeq(school_ratings, 1), Len(school_ratings)))
        ELSE None

\* max(rows, key=score): the first row of maximal score
RECURSIVE max_by_score(_, _, _)
max_by_score(rs, i, best) ==
    IF i > Len(rs) THEN best
    ELSE IF rs[i].score > rs[best].score THEN max_by_score(rs, i + 1, i)
    ELSE max_by_score(rs, i + 1, best)

\* a slice that keeps the whole list (a mutant of Take)
TakeAll(q, n) == q

\* x[:3]
Take(q, n) == SubSeq(q, 1, Min(n, Len(q)))

\* round(x, 1) of a fraction of plain units, in tenths
RoundTenths(f) == RoundDiv(10 * f.num, f.den)
\* rounding of a fraction whose unit already is the output's unit
RoundUnits(f) == RoundDiv(f.num, f.den)

\* the rules aggregate_group applies to the aggregate metrics
group_insights(school_rating, has_starbucks, gap_ratio, vac_pct, med_home_val, med_income, dom) ==
    LET a == IF school_rating # None /\ school_rating[1].num # 0
                /\ school_rating[1].num >= 80 * school_rating[1].den
             THEN <<Msg("excellent_schools", RoundUnits(school_rating[1]))>>
             ELSE IF school_rating # None /\ school_rating[1].num # 0
                     /\ school_rating[1].num >= 70 * school_rating[1].den
             THEN <<Msg("good_schools", RoundUnits(school_rating[1]))>>
             ELSE <<>>
        b == IF has_starbucks THEN <<Msg("starbucks", 0)>> ELSE <<>>
        c == IF gap_ratio # None /\ 130 * gap_ratio[1].den <= gap_ratio[1].num
                /\ gap_ratio[1].num <= 140 * gap_ratio[1].den
             THEN <<Msg("strong_profit", 0)>> ELSE <<>>
        d == IF vac_pct # None /\ 80 * vac_pct[1].den <= vac_pct[1].num
                /\ vac_pct[1].num <= 150 * vac_pct[1].den
             THEN <<Msg("healthy_inventory", 0)>> ELSE <<>>
        e == IF /\ med_home_val # None /\ med_home_val[1].num # 0
                /\ med_income # None /\ med_income[1].num # 0
                /\ 7 * med_income[1].num * med_home_val[1].den
                     >= 2 * med_home_val[1].num * med_income[1].den
             THEN <<Msg("strong_income", 0)>> ELSE <<>>
        f == IF dom # None /\ dom[1].num < 40 * dom[1].den
             THEN <<Msg("fast_market", dom[1].num \div dom[1].den)>> ELSE <<>>
    IN  a \o b \o c \o d \o e \o f

group_warnings(school_rating, gap_ratio, vac_pct, med_home_val, med_income, dom) ==
    LET a == IF /\ school_rating # None /\ school_rating[1].num # 0
                /\ school_rating[1].num < 70 * school_rating[1].den
                /\ school_rating[1].num <= 50 * school_rating[1].den
             THEN <<Msg("below_average_schools", RoundUnits(school_rating[1]))>>
             ELSE <<>>
        c == IF gap_ratio = None THEN <<>>
             ELSE IF 130 * gap_ratio[1].den <= gap_ratio[1].num
                     /\ gap_ratio[1].num <= 140 * gap_ratio[1].den THEN <<>>
             ELSE IF gap_ratio[1].num < 110 * gap_ratio[1].den
             THEN <<Msg("limited_margin", 0)>>
             ELSE IF gap_ratio[1].num > 170 * gap_ratio[1].den
             THEN <<Msg("above_budget", 0)>> ELSE <<>>
        d == IF vac_pct = None THEN <<>>
             ELSE IF 80 * vac_pct[1].den <= vac_pct[1].num
                     /\ vac_pct[1].num <= 150 * vac_pct[1].den THEN <<>>
             ELSE IF vac_pct[1].num < 50 * vac_pct[1].den
             THEN <<Msg("limited_inventory", 0)>>
             ELSE IF vac_pct[1].num > 200 * vac_pct[1].den
             THEN <<Msg("high_vacancy", 0)>> ELSE <<>>
        e == IF ~(/\ med_home_val # None /\ med_home_val[1].num # 0
                  /\ med_income # None /\ med_income[1].num # 0) THEN <<>>
             ELSE IF 7 * med_income[1].num * med_home_val[1].den
                       >= 2 * med_home_val[1].num * med_income[1].den THEN <<>>
             ELSE IF 35 * med_income[1].num * med_home_val[1].den
                       < 8 * med_home_val[1].num * med_income[1].den
             THEN <<Msg("income_limits", 0)>> ELSE <<>>
        f == IF dom = None THEN <<>>
             ELSE IF dom[1].num < 40 * dom[1].den THEN <<>>
             ELSE IF dom[1].num > 90 * dom[1].den
             THEN <<Msg("slow_market", dom[1].num \div dom[1].den)>> ELSE <<>>
    IN  a \o c \o d \o e \o f

\* the insights and warnings lists of aggregate_group as the rules fill
\* them, before the [:3]
group_messages(rs) ==
    LET med_home_val == pop_weighted_avg(metric_pairs(rs, "median_home_value"))
        med_income == pop_weighted_avg(metric_pairs(rs, "median_income"))
        vac_pct == pop_weighted_avg(number_pairs(rs, "vacancy_pct"))
        dom == dom_aggregate(rs)
        gap_ratio == pop_weighted_avg(number_pairs(rs, "gap_ratio"))
        has_starbucks == \E i \in 1..Len(rs) : rs[i].has_starbucks
        school_rating == school_rating_aggregate(rs)
    IN  [insights |-> group_insights(school_rating, has_starbucks, gap_ratio,
                                     vac_pct, med_home_val, med_income, dom),
         warnings |-> group_warnings(school_rating, gap_ratio, vac_pct,
                                     med_home_val, med_income, dom)]

aggregate_group(rs) ==
    LET total_pop == SumPop(rs, 1)
        med_home_val == pop_weighted_avg(metric_pairs(rs, "median_home_value"))
        med_income == pop_weighted_avg(metric_pairs(rs, "median_income"))
        vac_pct == pop_weighted_avg(number_pairs(rs, "vacancy_pct"))
        dom == dom_aggregate(rs)
        gap_ratio == pop_weighted_avg(number_pairs(rs, "gap_ratio"))
        area_score == pop_weighted_avg(number_pairs(rs, "score"))
        has_starbucks == \E i \in 1..Len(rs) : rs[i].has_starbucks
        school_rating == school_rating_aggregate(rs)
        primary_tract == rs[max_by_score(rs, 1, 1)]
    IN  [median_home_value |->
            IF med_home_val # None THEN Some(RoundTenths(med_home_val[1])) ELSE None,
         median_income |->
            IF med_income # None THEN Some(RoundTenths(med_income[1])) ELSE None,
         vacancy_pct |-> IF vac_pct # None THEN Some(RoundUnits(vac_pct[1])) ELSE None,
         days_on_market |-> IF dom # None THEN Some(dom[1].num \div dom[1].den) ELSE None,
         gap_ratio |-> IF gap_ratio # None THEN Some(RoundUnits(gap_ratio[1])) ELSE None,
         total_pop |-> total_pop,
         score |-> IF area_score # None THEN RoundUnits(area_score[1]) ELSE 0,
         has_starbucks |-> has_starbucks,
         school_rating |->
            IF school_rating # None THEN Some(RoundUnits(school_rating[1])) ELSE None,
         insights |-> Take(group_messages(rs).insights, 3),
         warnings |-> Take(group_messages(rs).warnings, 3),
         member_tracts |-> [i \in 1..Len(rs) |->
                              [tract_id |-> rs[i].tract_id, zip_code |-> rs[i].zip_code,
                               score |-> rs[i].score]],
         tracts_count |-> Len(rs),
         primary_tract_code |-> primary_tract.tract,
         primary_county_fips |-> primary_tract.county]

---------------------------------------------------------------------------
(* THE MARKET LOOKUP: get_market_stats_for_zip *)

\* Python's `a or b`: a when a is truthy (neither None nor 0), else b
PyOr(a, b) == IF a # None /\ a[1] # 0 THEN a ELSE b

\* the days list: per listing, the first truthy of its three day counts (the
\* last one when none is), kept when it is a number >= 0
RECURSIVE days_of(_, _)
days_of(props, i) ==
    IF i > Len(props) THEN <<>>
    ELSE LET p == props[i]
             dom == PyOr(PyOr(p.days_on_market, p.list_days_on_market), p.dom)
         IN  IF dom # None /\ dom[1] >= 0
             THEN <<dom[1]>> \o days_of(props, i + 1)
             ELSE days_of(props, i + 1)

\* list.sort(), by insertion
RECURSIVE insert_sorted(_, _)
insert_sorted(q, x) ==
    IF q = <<>> THEN <<x>>
    ELSE IF x < Head(q) THEN <<x>> \o q
    ELSE <<Head(q)>> \o insert_sorted(Tail(q), x)

RECURSIVE sorted(_)
sorted(q) == IF q = <<>> THEN <<>> ELSE insert_sorted(sorted(Tail(q)), Head(q))

\* resp is what requests.post does: it raises, or answers with a status and
\* the listings of the body.  Returns median_days_on_market, the dict as the
\* call leaves it, and whether an upstream request was made.
get_market_stats_for_zip_unmemoized(cache, configured, zip_code, resp) ==
    LET absent(requested) ==
            [median_days_on_market |-> None,
             cache |-> [cache EXCEPT ![zip_code] = Some(None)],
             requested |-> requested]
    IN  IF zip_code = ""
        THEN [median_days_on_market |-> None, cache |-> cache, requested |-> FALSE]
        ELSE IF ~configured THEN absent(FALSE)
        ELSE IF resp.exc # "" THEN absent(TRUE)
        ELSE IF resp.status >= 400 THEN absent(TRUE)
        ELSE LET days == sorted(days_of(resp.results, 1))
             IN  IF days = <<>> THEN absent(TRUE)
                 ELSE [median_days_on_market |-> Some(days[(Len(days) \div 2) + 1]),
                       cache |-> [cache EXCEPT ![zip_code] =
                                     Some(Some(days[(Len(days) \div 2) + 1]))],
                       requested |-> TRUE]

get_market_stats_for_zip(cache, configured, zip_code, resp) ==
    LET absent(requested) ==
            [median_days_on_market |-> None,
             cache |-> [cache EXCEPT ![zip_code] = Some(None)],
             requested |-> requested]
    IN  IF zip_code = ""
        THEN [median_days_on_market |-> None, cache |-> cache, requested |-> FALSE]
        ELSE IF cache[zip_code] # None
        THEN [median_days_on_market |-> cache[zip_code][1], cache |-> cache,
              requested |-> FALSE]
        ELSE IF ~configured THEN absent(FALSE)
        ELSE IF resp.exc # "" THEN absent(TRUE)
        ELSE IF resp.status = 404 THEN absent(TRUE)
        ELSE IF resp.status = 429 THEN absent(TRUE)
        ELSE IF resp.status >= 400 THEN absent(TRUE)
        ELSE LET days == sorted(days_of(resp.results, 1))
             IN  IF days = <<>> THEN absent(TRUE)
                 ELSE LET median_dom == days[(Len(days) \div 2) + 1]
                      IN  [median_days_on_market |-> Some(median_dom),
                           cache |-> [cache EXCEPT ![zip_code] = Some(Some(median_dom))],
                           requested |-> TRUE]

---------------------------------------------------------------------------
(* THE ANALYZE HANDLER: the steps of analyze_neighborhoods *)

\* the header row of a census response: ACS_VARS.keys(), then the geography
ACS_HEADERS ==
    <<"B01003_001E", "B25001_001E", "B25002_003E", "B25077_001E", "B19013_001E",
      "B25064_001E", "state", "county", "tract">>

\* dict(zip(headers, row)).get(key)
rec_get(headers, row, key) ==
    IF \E i \in 1..Min(Len(headers), Len(row)) : headers[i] = key
    THEN row[CHOOSE i \in 1..Min(Len(headers), Len(row)) : headers[i] = key]
    ELSE None

\* the body of the loop over the rows of one county
tract_item(headers, row, county_name, pmax) ==
    LET total_housing == safe_int(rec_get(headers, row, "B25001_001E"))
        vacant == safe_int(rec_get(headers, row, "B25002_003E"))
        vacancy_pct == IF total_housing # None /\ total_housing[1] # 0
                          /\ vacant # None /\ total_housing[1] > 0
                       THEN RoundDiv(1000 * vacant[1], total_housing[1])
                       ELSE 0
        t == rec_get(headers, row, "tract")[1]
        item == [state |-> rec_get(headers, row, "state")[1],
                 county |-> rec_get(headers, row, "county")[1],
                 tract |-> t,
                 county_name |-> county_name,
                 neighborhood |-> neighborhood_label(county_name, t),
                 tract_id |-> tract_id_human(t),
                 total_pop |-> safe_int(rec_get(headers, row, "B01003_001E")),
                 housing_units |-> total_housing,
                 housing_vacant |-> vacant,
                 vacancy_pct |-> vacancy_pct,
                 median_home_value |-> safe_int(rec_get(headers, row, "B25077_001E")),
                 median_income |-> safe_int(rec_get(headers, row, "B19013_001E")),
                 median_gross_rent |-> safe_int(rec_get(headers, row, "B25064_001E")),
                 \* keys the item never gets: r.get(...) of them is None
                 days_on_market |-> None,
                 zip_code |-> None]
        result == score_tract_flip_potential(item, pmax)
    IN  [k \in DOMAIN item \cup DOMAIN result |->
            IF k \in DOMAIN result THEN result[k] ELSE item[k]]

\* a loop that skips the rows without a median home value (a mutant of
\* tract_items)
tract_items_priced_only(data, county_name, pmax) ==
    LET all == [i \in 1..(Len(data) - 1) |->
                   tract_item(data[1], data[i + 1], county_name, pmax)]
        priced == {i \in 1..Len(all) : all[i].median_home_value # None}
    IN  IF priced = DOMAIN all THEN all ELSE SubSeq(all, 1, Cardinality(priced))

\* the items of data[1:], in order
tract_items(data, county_name, pmax) ==
    [i \in 1..(Len(data) - 1) |-> tract_item(data[1], data[i + 1], county_name, pmax)]

\* list.sort(key=score, reverse=True): stable, so items of equal score keep
\* their order
RECURSIVE insert_by_score(_, _)
insert_by_score(q, x) ==
    IF q = <<>> THEN <<x>>
    ELSE IF x.score >= Head(q).score THEN <<x>> \o q
    ELSE <<Head(q)>> \o insert_by_score(Tail(q), x)

RECURSIVE sort_by_score(_)
sort_by_score(q) ==
    IF q = <<>> THEN <<>>
    ELSE insert_by_score(sort_by_score(Tail(q)), Head(q))

\* [t for t in all_tracts if (t.get("score") or 0) >= min_score]
RECURSIVE filter_min_score(_, _)
filter_min_score(q, min_score) ==
    IF q = <<>> THEN <<>>
    ELSE IF Head(q).score >= min_score
         THEN <<Head(q)>> \o filter_min_score(Tail(q), min_score)
    ELSE filter_min_score(Tail(q), min_score)

\* Python's q[:n], n of either sign
PySlice(q, n) ==
    IF n >= 0 THEN SubSeq(q, 1, Min(n, Len(q)))
    ELSE SubSeq(q, 1, Max(0, Len(q) + n))

RECURSIVE SumScores(_, _)
SumScores(q, i) == IF i > Len(q) THEN 0 ELSE q[i].score + SumScores(q, i + 1)

\* the "summary" object of a response; shown is the truncated list, all the
\* list before truncation
summary_of(shown, all) ==
    [top_score |-> IF shown # <<>> THEN shown[1].score ELSE 0,
     avg_score |-> IF all # <<>> THEN RoundDiv(SumScores(all, 1), Len(all)) ELSE 0,
     total_meeting_criteria |-> Len(all)]

\* the keys of groups, in the order setdefault created them
RECURSIVE group_keys(_, _, _)
group_keys(filtered, i, keys) ==
    IF i > Len(filtered) THEN keys
    ELSE LET key == <<filtered[i].county_name, filtered[i].neighborhood>>
         IN  IF \E j \in 1..Len(keys) : keys[j] = key
             THEN group_keys(filtered, i + 1, keys)
             ELSE group_keys(filtered, i + 1, Append(keys, key))

\* groups[key], in the order the tracts were appended
RECURSIVE group_rows(_, _)
group_rows(filtered, key) ==
    IF filtered = <<>> THEN <<>>
    ELSE IF <<Head(filtered).county_name, Head(filtered).neighborhood>> = key
         THEN <<Head(filtered)>> \o group_rows(Tail(filtered), key)
    ELSE group_rows(Tail(filtered), key)

\* guesses: the zip of each row that has one
RECURSIVE zip_guesses(_, _)
zip_guesses(rs, i) ==
    IF i > Len(rs) THEN <<>>
    ELSE LET g == get_zip_for_tract(rs[i].county, rs[i].tract)
         IN  IF g # None THEN <<g[1]>> \o zip_guesses(rs, i + 1)
             ELSE zip_guesses(rs, i + 1)

\* The values max(set(guesses), key=guesses.count) can return: a most
\* frequent guess.  Among equally frequent ones the iteration order of the
\* set decides, which differs from one run of the interpreter to the next.
zip_guess_choices(guesses) ==
    LET count(g) == Cardinality({i \in 1..Len(guesses) : guesses[i] = g})
        S == {guesses[i] : i \in 1..Len(guesses)}
    IN  {g \in S : \A h \in S : count(g) >= count(h)}

\* one neighborhood dict, for a given outcome of the zip guess
neighborhood_of(key, rs, guess) ==
    LET a == aggregate_group(rs)
        more == [county_name |-> key[1], neighborhood |-> key[2], zip_guess |-> guess]
    IN  [k \in DOMAIN a \cup DOMAIN more |-> IF k \in DOMAIN more THEN more[k] ELSE a[k]]

\* the lists the loop over groups can build, one per outcome of the guesses
RECURSIVE neighborhood_lists(_, _, _)
neighborhood_lists(filtered, keys, i) ==
    IF i > Len(keys) THEN {<<>>}
    ELSE LET rs == group_rows(filtered, keys[i])
             guesses == zip_guesses(rs, 1)
             choices == IF guesses = <<>> THEN {None}
                        ELSE {Some(g) : g \in zip_guess_choices(guesses)}
         IN  {<<neighborhood_of(keys[i], rs, c)>> \o rest :
                 c \in choices, rest \in neighborhood_lists(filtered, keys, i + 1)}

\* the insights and warnings the enrichment loop derives once it has a dom;
\* the aggregate metrics it reads are the rounded ones of the dict
enriched_insight_rules(n, dom) ==
    LET b == IF n.has_starbucks THEN <<Msg("starbucks", 0)>> ELSE <<>>
        c == IF n.gap_ratio # None /\ 130 <= n.gap_ratio[1] /\ n.gap_ratio[1] <= 140
             THEN <<Msg("strong_profit", 0)>> ELSE <<>>
        d == IF n.vacancy_pct # None /\ 80 <= n.vacancy_pct[1] /\ n.vacancy_pct[1] <= 150
             THEN <<Msg("healthy_inventory", 0)>> ELSE <<>>
        e == IF /\ n.median_home_value # None /\ n.median_home_value[1] # 0
                /\ n.median_income # None /\ n.median_income[1] # 0
                /\ 7 * n.median_income[1] >= 2 * n.median_home_value[1]
             THEN <<Msg("strong_income", 0)>> ELSE <<>>
        f == IF dom < 40 THEN <<Msg("fast_market", dom)>> ELSE <<>>
    IN  b \o c \o d \o e \o f

enriched_warning_rules(n, dom) ==
    LET c == IF n.gap_ratio = None THEN <<>>
             ELSE IF 130 <= n.gap_ratio[1] /\ n.gap_ratio[1] <= 140 THEN <<>>
             ELSE IF n.gap_ratio[1] < 110 THEN <<Msg("limited_margin", 0)>>
             ELSE IF n.gap_ratio[1] > 170 THEN <<Msg("above_budget", 0)>> ELSE <<>>
        d == IF n.vacancy_pct = None THEN <<>>
             ELSE IF 80 <= n.vacancy_pct[1] /\ n.vacancy_pct[1] <= 150 THEN <<>>
             ELSE IF n.vacancy_pct[1] < 50 THEN <<Msg("limited_inventory", 0)>>
             ELSE IF n.vacancy_pct[1] > 200 THEN <<Msg("high_vacancy", 0)>> ELSE <<>>
        e == IF ~(/\ n.median_home_value # None /\ n.median_home_value[1] # 0
                  /\ n.median_income # None /\ n.median_income[1] # 0) THEN <<>>
             ELSE IF 7 * n.median_income[1] >= 2 * n.median_home_value[1] THEN <<>>
             ELSE IF 35 * n.median_income[1] < 8 * n.median_home_value[1]
             THEN <<Msg("income_limits", 0)>> ELSE <<>>
        f == IF dom < 40 THEN <<>>
             ELSE IF dom > 90 THEN <<Msg("slow_market", dom)>> ELSE <<>>
    IN  c \o d \o e \o f

\* neighborhood["insights"] = insights[:3]; neighborhood["warnings"] = warnings[:3]
enriched_insights(n, dom) == Take(enriched_insight_rules(n, dom), 3)
enriched_warnings(n, dom) == Take(enriched_warning_rules(n, dom), 3)

---------------------------------------------------------------------------
(* The state of each part of the model while a specification does not use it *)

NoTract == [median_home_value |-> None, median_income |-> None, vacancy_pct |-> 0,
            days_on_market |-> None, neighborhood |-> "", county_name |-> ""]

ScoreIdle == tract = NoTract /\ price_max = 0 /\ scored = None
AggIdle == rows = <<>> /\ agg = None /\ avgs = None

\* the keys the cache specification stores under
ProbeFips == {"097"}
ProbeZips == {"46201"}
ProbeGeoids == {"18097310104"}
ProbeLocations == {"downtown_indianapolis_in"}

NoLookup == [cache |-> "none", key |-> "", ret |-> None, age |-> 0, stored |-> None]

ClockIdle == now = 0 /\ ticks = 0
CacheIdle ==
    /\ _census_cache = [k \in ProbeFips |-> None]
    /\ _listings_cache = [k \in ProbeZips |-> None]
    /\ _tract_boundaries_cache = [k \in ProbeGeoids |-> None]
    /\ _location_id_cache = [k \in ProbeLocations |-> None]
    /\ lookup = NoLookup

NoRequest == [top |-> 0, top_n |-> 0, price_min |-> 0, price_max |-> 0, min_score |-> 0,
              include_market_data |-> FALSE, do_group |-> FALSE,
              max_market_lookups |-> 0]
NoFetch == [county_fips |-> "", entry |-> None, at |-> 0, answers |-> <<>>,
            ret |-> None, raised |-> "", calls |-> <<>>]
\* calls counts the calls of get_market_stats_for_zip; saw_429 records that
\* the market source answered one of them with status 429
NoEnrich == [on |-> FALSE, todo |-> 0, i |-> 1, calls |-> 0, looked |-> 0,
             rate_limit_hit |-> FALSE, saw_429 |-> FALSE]
NoAnswer == [exc |-> "", status |-> 0, results |-> <<>>]
NoMarket == [zip_code |-> "", known |-> FALSE, requested |-> FALSE, answer |-> NoAnswer,
             ret |-> None]

\* the handler between two requests
\* no call of listings_endpoint yet; no thread inside a lookup
NoListings == [called |-> FALSE]
NoThreads == <<>>

HandlerIdle ==
    /\ listings = NoListings /\ threads = NoThreads
    /\ pc = "idle" /\ requests = 0 /\ req = NoRequest /\ ci = 0 /\ fetch = NoFetch
    /\ fetched = <<>>
    /\ all_tracts = <<>> /\ errors = <<>> /\ neighborhoods = <<>>
    /\ enrich = NoEnrich /\ market = NoMarket /\ response = None

AnIdle == HandlerIdle /\ _dom_cache = <<>> /\ RAPIDAPI_KEY = FALSE

---------------------------------------------------------------------------
(* The scoring engine applied to drawn inputs *)

\* (neighborhood, county_name) pairs neighborhood_label can produce
Labels ==
    {<<"Zionsville", "Boone">>, <<"Lebanon", "Boone">>,
     <<"Broad Ripple", "Marion">>, <<"Downtown", "Marion">>,
     <<"Fountain Square", "Marion">>, <<"Wayne Township/Southwest", "Marion">>,
     <<"Anderson - West Side", "Madison">>}

HomeValues == {None} \cup {Some(v) : v \in {0, 100, 220, 260, 270, 290, 320, 345, 400, 800}}
Incomes == {None} \cup {Some(v) : v \in {0, 40, 60, 75, 100, 200}}
VacancyPcts == {0, 40, 80, 115, 150, 210, 250, 300, 1000}
DaysOnMarket == {None} \cup {Some(v) : v \in {0, 25, 30, 45, 60, 90, 120}}
PriceMaxes == {0, 200}


ScoreInit ==
    /\ \E mhv \in HomeValues, inc \in Incomes, vac \in VacancyPcts,
          dom \in DaysOnMarket, lab \in Labels :
          tract = [median_home_value |-> mhv, median_income |-> inc,
                   vacancy_pct |-> vac, days_on_market |-> dom,
                   neighborhood |-> lab[1], county_name |-> lab[2]]
    /\ price_max \in PriceMaxes
    /\ scored = None
    /\ AggIdle /\ ClockIdle /\ CacheIdle /\ AnIdle

ScoreTract ==
    /\ scored = None
    /\ scored' = Some(score_tract_flip_potential(tract, price_max))
    /\ UNCHANGED <<tract, price_max>>
    /\ UNCHANGED <<aggVars, clockVars, cacheVars, anVars>>

ScoreNext == ScoreTract

SpecScore == ScoreInit /\ [][ScoreNext]_vars

(* C7: every score the engine returns lies in [0, 100] points, and so does
   each of the four displayed sub-scores (all kept in tenths of a point). *)
C7_ScoreBounds ==
    scored # None =>
        /\ 0 <= scored[1].score /\ scored[1].score <= 1000
        /\ \A f \in {"gap_score", "vacancy_score", "income_score", "velocity_score"} :
              0 <= scored[1][f] /\ scored[1][f] <= 1000

\* the lower bound is met: a tract with no gap, income or vacancy credit, a
\* slow market and the school penalty scores exactly 0
C7_Witness ==
    /\ scored # None
    /\ scored[1].score = 0
    /\ scored[1].school_bonus < 0
    /\ tract.days_on_market # None

---------------------------------------------------------------------------
(* The aggregation engine applied to drawn groups *)

\* the longest group drawn
MaxGroup == 2

Populations == {None, Some(0), Some(1000), Some(3000)}
Scores == {400, 800}
\* (median_home_value, median_income, gap_ratio) of a scored tract, price_max 200
ValueIncomes == {<<None, None, 0>>, <<Some(260), None, 130>>, <<Some(260), Some(80), 130>>}
GroupDoms == {None, Some(45)}

AggRows ==
    {[total_pop |-> p, score |-> s, median_home_value |-> vi[1],
      median_income |-> vi[2], gap_ratio |-> vi[3], vacancy_pct |-> 115,
      days_on_market |-> d, has_starbucks |-> FALSE, school_rating |-> None,
      tract_id |-> tract_id_human(310104), zip_code |-> None, tract |-> 310104,
      county |-> "097"] :
        p \in Populations, s \in Scores, vi \in ValueIncomes, d \in GroupDoms}

Groups == UNION {[1..n -> AggRows] : n \in 1..MaxGroup}

AggInit ==
    /\ rows \in Groups
    /\ agg = None
    /\ avgs = None
    /\ ScoreIdle /\ ClockIdle /\ CacheIdle /\ AnIdle

Aggregate ==
    /\ agg = None
    /\ agg' = Some(aggregate_group(rows))
    /\ avgs' = Some([score |-> pop_weighted_avg(number_pairs(rows, "score")),
                     median_home_value |->
                        pop_weighted_avg(metric_pairs(rows, "median_home_value"))])
    /\ UNCHANGED rows
    /\ UNCHANGED <<scoreVars, clockVars, cacheVars, anVars>>

AggNext == Aggregate

SpecAgg == AggInit /\ [][AggNext]_vars

\* sums over a set of indices, taken in no particular order
RECURSIVE SetSum(_, _)
SetSum(S, f) ==
    IF S = {} THEN 0
    ELSE LET x == CHOOSE y \in S : TRUE IN f[x] + SetSum(S \ {x}, f)

Perms(n) == {p \in [1..n -> 1..n] : \A i, j \in 1..n : p[i] = p[j] => i = j}
Permuted(q, p) == [i \in 1..Len(q) |-> q[p[i]]]

\* sum of value * population over sum of population, over the known values
ExpectedAvg(values, result) ==
    LET K == {i \in 1..Len(values) : values[i][1] # None}
        N == SetSum(K, [i \in K |-> values[i][1][1] * values[i][2]])
        D == SetSum(K, [i \in K |-> values[i][2]])
    IN  IF D = 0 THEN result = None
        ELSE result # None /\ result[1].num * D = result[1].den * N

(* C8 (as claimed): for a group of exactly one tract, each aggregate that
   aggregate_group returns equals that tract's own value, whatever
   population the tract carries (positive, zero or unknown). *)
C8_SingleTract ==
    (agg # None /\ Len(rows) = 1) =>
        /\ agg[1].score = rows[1].score
        /\ agg[1].gap_ratio = Some(rows[1].gap_ratio)
        /\ agg[1].vacancy_pct = Some(rows[1].vacancy_pct)
        /\ agg[1].median_home_value =
              IF rows[1].median_home_value = None THEN None
              ELSE Some(10 * rows[1].median_home_value[1])
        /\ agg[1].median_income =
              IF rows[1].median_income = None THEN None
              ELSE Some(10 * rows[1].median_income[1])

(* C9: pop_weighted_avg returns sum(value_i * population_i) /
   sum(population_i) over exactly the tracts whose value is known (None when
   that population sum is 0); populations 1000 and 3000 with scores 80 and 40
   give 50.0; every permutation of the list gives the same result. *)
C9_WeightedAverage ==
    avgs # None =>
        LET sv == number_pairs(rows, "score")
            hv == metric_pairs(rows, "median_home_value")
        IN  /\ ExpectedAvg(sv, avgs[1].score)
            /\ ExpectedAvg(hv, avgs[1].median_home_value)
            /\ (sv = <<<<Some(800), 1000>>, <<Some(400), 3000>>>>
                  => avgs[1].score = Some([num |-> 500, den |-> 1]))
            /\ \A p \in Perms(Len(rows)) :
                  /\ pop_weighted_avg(Permuted(sv, p)) = avgs[1].score
                  /\ pop_weighted_avg(Permuted(hv, p)) = avgs[1].median_home_value

\* the example group of the claim, with one tract of unknown home value
C9_Witness ==
    /\ avgs # None
    /\ Len(rows) = 2
    /\ number_pairs(rows, "score") = <<<<Some(800), 1000>>, <<Some(400), 3000>>>>
    /\ avgs[1].score = Some([num |-> 500, den |-> 1])
    /\ rows[1].median_home_value = None /\ rows[2].median_home_value # None
    /\ avgs[1].median_home_value = Some([num |-> 260, den |-> 1])

(* C10: when no tract of the group has a known value for a metric (median
   home value, median income, days on market), the aggregate of that metric
   is None: never 0, and never a figure derived from the neutral velocity. *)
C10_AbsentStaysAbsent ==
    agg # None =>
        \A m \in {"median_home_value", "median_income", "days_on_market"} :
            (\A i \in 1..Len(rows) : rows[i][m] = None) => agg[1][m] = None

\* a group of two populated tracts, neither with days on market, aggregated
C10_Witness ==
    /\ agg # None
    /\ Len(rows) = 2
    /\ \A i \in 1..2 : rows[i].days_on_market = None /\ Or0(rows[i].total_pop) > 0
    /\ agg[1].days_on_market = None
    /\ agg[1].median_home_value # None

---------------------------------------------------------------------------
(* The caches under any sequence of lookups, stores and clock advances *)

\* how often the clock is advanced
MaxTicks == 2
\* how many distinct values are stored
NumValues == 2

\* hours by which the clock advances in one step
Jumps == {1, LISTINGS_CACHE_HOURS, CACHE_DURATION_HOURS,
          timedelta_days(LOCATION_ID_CACHE_DAYS)}

CacheValues == 1..NumValues
AutocompleteOutcomes ==
    {[kind |-> "nomatch", location_data |-> 0], [kind |-> "error", location_data |-> 0]}
    \cup {[kind |-> "match", location_data |-> v] : v \in CacheValues}


\* the age, at time t, of the entry stored under a key (0 when there is none)
AgeOf(cache, key, field, t) ==
    IF cache[key] = None THEN 0 ELSE t - fromisoformat(cache[key][1][field])

CacheInit == ClockIdle /\ CacheIdle /\ ScoreIdle /\ AggIdle /\ AnIdle

Tick ==
    /\ ticks < MaxTicks
    /\ \E j \in Jumps : now' = now + j
    /\ ticks' = ticks + 1

CacheTick ==
    /\ Tick
    /\ lookup' = NoLookup
    /\ UNCHANGED <<_census_cache, _listings_cache, _tract_boundaries_cache,
                   _location_id_cache, scoreVars, aggVars, anVars>>

CensusGet ==
    \E k \in DOMAIN _census_cache :
        LET r == get_cached_census_data(_census_cache, k, now)
        IN  /\ _census_cache' = r.cache
            /\ lookup' = [cache |-> "census", key |-> k, stored |-> None, ret |-> r.ret,
                          age |-> AgeOf(_census_cache, k, "cached_at", now)]
            /\ UNCHANGED <<_listings_cache, _tract_boundaries_cache, _location_id_cache>>
            /\ UNCHANGED <<clockVars, scoreVars, aggVars, anVars>>

CensusSet ==
    \E k \in DOMAIN _census_cache, v \in CacheValues :
        /\ _census_cache' = cache_census_data(_census_cache, k, v, now)
        /\ lookup' = [cache |-> "census", key |-> k, stored |-> Some(v), ret |-> None,
                      age |-> AgeOf(_census_cache, k, "cached_at", now)]
        /\ UNCHANGED <<_listings_cache, _tract_boundaries_cache, _location_id_cache>>
        /\ UNCHANGED <<clockVars, scoreVars, aggVars, anVars>>

ListingsGet ==
    \E k \in DOMAIN _listings_cache :
        LET r == _cache_get_listings(_listings_cache, k, now)
        IN  /\ _listings_cache' = r.cache
            /\ lookup' = [cache |-> "listings", key |-> k, stored |-> None, ret |-> r.ret,
                          age |-> AgeOf(_listings_cache, k, "ts", now)]
            /\ UNCHANGED <<_census_cache, _tract_boundaries_cache, _location_id_cache>>
            /\ UNCHANGED <<clockVars, scoreVars, aggVars, anVars>>

ListingsSet ==
    \E k \in DOMAIN _listings_cache, v \in CacheValues :
        /\ _listings_cache' = _cache_set_listings(_listings_cache, k, v, now)
        /\ lookup' = [cache |-> "listings", key |-> k, stored |-> Some(v), ret |-> None,
                      age |-> AgeOf(_listings_cache, k, "ts", now)]
        /\ UNCHANGED <<_census_cache, _tract_boundaries_cache, _location_id_cache>>
        /\ UNCHANGED <<clockVars, scoreVars, aggVars, anVars>>

BoundaryGet ==
    \E k \in DOMAIN _tract_boundaries_cache :
        LET r == _cache_get_tract_boundary(_tract_boundaries_cache, k, now)
        IN  /\ _tract_boundaries_cache' = r.cache
            /\ lookup' = [cache |-> "boundary", key |-> k, stored |-> None, ret |-> r.ret,
                          age |-> AgeOf(_tract_boundaries_cache, k, "ts", now)]
            /\ UNCHANGED <<_census_cache, _listings_cache, _location_id_cache>>
            /\ UNCHANGED <<clockVars, scoreVars, aggVars, anVars>>

BoundarySet ==
    \E k \in DOMAIN _tract_boundaries_cache, v \in CacheValues :
        /\ _tract_boundaries_cache' =
              _cache_set_tract_boundary(_tract_boundaries_cache, k, v, now)
        /\ lookup' = [cache |-> "boundary", key |-> k, stored |-> Some(v), ret |-> None,
                      age |-> AgeOf(_tract_boundaries_cache, k, "ts", now)]
        /\ UNCHANGED <<_census_cache, _listings_cache, _location_id_cache>>
        /\ UNCHANGED <<clockVars, scoreVars, aggVars, anVars>>

\* one call of resolve_neighborhood_to_location_id; a value that does not
\* come from the cache is recorded with age 0
ResolveLocation ==
    \E k \in DOMAIN _location_id_cache, o \in AutocompleteOutcomes :
        LET r == resolve_neighborhood_to_location_id(_location_id_cache, k, now, o)
        IN  /\ _location_id_cache' = r.cache
            /\ lookup' = [cache |-> "location", key |-> k, stored |-> None, ret |-> r.ret,
                          age |-> IF r.hit THEN AgeOf(_location_id_cache, k, "ts", now)
                                  ELSE 0]
            /\ UNCHANGED <<_census_cache, _listings_cache, _tract_boundaries_cache>>
            /\ UNCHANGED <<clockVars, scoreVars, aggVars, anVars>>

CacheNext ==
    \/ CacheTick
    \/ CensusGet \/ CensusSet
    \/ ListingsGet \/ ListingsSet
    \/ BoundaryGet \/ BoundarySet
    \/ ResolveLocation

SpecCache == CacheInit /\ [][CacheNext]_vars

\* the TTL of each cache, in hours
TTL(cache) ==
    CASE cache = "census" -> timedelta_hours(CACHE_DURATION_HOURS)
      [] cache = "listings" -> timedelta_hours(LISTINGS_CACHE_HOURS)
      [] cache = "boundary" -> timedelta_days(TRACT_BOUNDARY_CACHE_DAYS)
      [] cache = "location" -> timedelta_days(LOCATION_ID_CACHE_DAYS)
      [] OTHER -> 0

(* C1: a lookup in a TTL-bounded cache (census data, listings, tract
   boundary, location identifier) never returns a value whose age, now minus
   its stored timestamp, is greater than the TTL of that cache. *)
C1_CacheFreshness ==
    lookup.ret # None => lookup.age <= TTL(lookup.cache)

\* a census lookup returned a value of age exactly 24 hours, and stale
\* entries are waiting in the other caches
C1_Witness ==
    /\ lookup.cache = "census"
    /\ lookup.ret # None
    /\ lookup.age = timedelta_hours(CACHE_DURATION_HOURS)
    /\ \E k \in DOMAIN _listings_cache :
          /\ _listings_cache[k] # None
          /\ AgeOf(_listings_cache, k, "ts", now) > timedelta_hours(LISTINGS_CACHE_HOURS)

---------------------------------------------------------------------------
(* The upstream services, as the answers they can give *)

\* how many of the configured counties the model covers, in their order
NumCounties == 2
\* the most tract rows a census response carries
MaxRows == 2

COUNTIES == SubSeq(CENTRAL_IN_COUNTIES, 1, NumCounties)
CountyFips == {COUNTIES[i][2] : i \in 1..Len(COUNTIES)}

\* the value the census API uses for "not available"
Sentinel == 0 - 666

\* Tract rows of a county, in the column order of ACS_HEADERS; dollar
\* amounts are in thousands.  A raw value is None or <<what the cell holds>>.
CensusRows(county_fips) ==
    CASE county_fips = "011" ->
           <<<<Some(1000), Some(400), Some(46), Some(260), Some(80), Some(1),
               Some("18"), Some("011"), Some(810100)>>,
             <<Some(3000), Some(500), Some(10), Some(Sentinel), Some(40), Some(1),
               Some("18"), Some("011"), Some(810200)>>,
             <<Some(0), Some(0), None, Some(400), Some(60), Some(Sentinel),
               Some("18"), Some("011"), Some(810300)>>>>
      [] county_fips = "057" ->
           <<<<Some(2000), Some(800), Some(80), Some(270), Some(100), Some(1),
               Some("18"), Some("057"), Some(110101)>>,
             <<Some(1000), Some(300), Some(75), Some(220), Some(60), Some(1),
               Some("18"), Some("057"), Some(110102)>>>>
      [] county_fips = "059" ->
           <<<<Some(1500), Some(600), Some(60), Some(345), Some(75), Some(1),
               Some("18"), Some("059"), Some(410100)>>,
             <<Some(500), Some(200), Some(50), Some(100), Some(40), Some(1),
               Some("18"), Some("059"), Some(410201)>>>>
      [] OTHER -> <<>>

\* the JSON arrays a successful census response can carry for a county
\* (the first rows of the county, up to MaxRows of them, or one of the rows
\* after those alone)
CensusDatasets(county_fips) ==
    {<<ACS_HEADERS>> \o SubSeq(CensusRows(county_fips), 1, n) :
        n \in 1..Min(MaxRows, Len(CensusRows(county_fips)))}
    \cup {<<ACS_HEADERS, CensusRows(county_fips)[n]>> :
            n \in (MaxRows + 1)..Len(CensusRows(county_fips))}

\* what one requests.get of the census API can do: failures of the network,
\* failures the server reports, and successful answers
NetworkFailures == {Raises("Timeout"), Raises("ConnectionError")}
ServerFailures == {Answers(503, JsonArray(<<>>)), Answers(404, JsonArray(<<>>))}
FinalAnswers(county_fips) ==
    {Answers(200, JsonArray(<<>>)), Answers(200, JsonArray(<<ACS_HEADERS>>)),
     Answers(200, JsonScalar)}
    \cup {Answers(200, JsonArray(d)) : d \in CensusDatasets(county_fips)}

\* What the upstream does over the attempts of one call: failures out of T,
\* which the loop retries, ended by an answer it does not retry or by the
\* attempt cap.
Scripts(T, county_fips) ==
    LET F == FinalAnswers(county_fips)
    IN  {<<f>> : f \in F}
        \cup {<<a, f>> : a \in T, f \in F}
        \cup {<<a, b, c>> : a \in T, b \in T, c \in T \cup F}

\* successful answers without a data row: an empty array, a header alone
ShortAnswers == {Answers(200, JsonArray(<<>>)), Answers(200, JsonArray(<<ACS_HEADERS>>))}

\* What the upstream would do over the attempts of one call when an answer
\* without data rows comes before the last attempt: the answers after it are
\* the ones a further attempt would get.
CutShortScripts(T, county_fips) ==
    LET S == {Answers(200, JsonArray(d)) : d \in CensusDatasets(county_fips)}
    IN  {<<e, s>> : e \in ShortAnswers, s \in S}
        \cup {<<a, e, s>> : a \in T, e \in ShortAnswers, s \in S}

---------------------------------------------------------------------------
(* The retrying fetch under any sequence of calls and clock advances *)

\* hours by which the clock advances between two calls
FetchJumps == {1, CACHE_DURATION_HOURS}

FetchInit ==
    /\ now = 0 /\ ticks = 0
    /\ _census_cache = [k \in CountyFips |-> None]
    /\ _listings_cache = [k \in ProbeZips |-> None]
    /\ _tract_boundaries_cache = [k \in ProbeGeoids |-> None]
    /\ _location_id_cache = [k \in ProbeLocations |-> None]
    /\ lookup = NoLookup
    /\ ScoreIdle /\ AggIdle /\ AnIdle

\* the record of one call: the cache entry it found, the time, what the
\* upstream did (nothing when the cache answered), and what came back
fetch_record(county_fips, answers, r) ==
    [county_fips |-> county_fips, entry |-> _census_cache[county_fips], at |-> now,
     answers |-> IF r.calls = <<>> THEN <<>> ELSE answers,
     ret |-> r.ret, raised |-> r.raised, calls |-> r.calls]

\* the failures the calls of this specification meet
FetchFailures == NetworkFailures \cup {Answers(503, JsonArray(<<>>))}

FetchCall ==
    \E i \in 1..Len(COUNTIES) :
        \E answers \in IF get_cached_census_data(_census_cache, COUNTIES[i][2], now).ret # None
                       THEN {<<>>}
                       ELSE Scripts(FetchFailures, COUNTIES[i][2])
                            \cup CutShortScripts(FetchFailures, COUNTIES[i][2]) :
            LET r == fetch_census_data_with_retry(_census_cache, COUNTIES[i][2], answers, now)
            IN  /\ _census_cache' = r.cache
                /\ fetch' = fetch_record(COUNTIES[i][2], answers, r)
                /\ UNCHANGED <<_dom_cache, RAPIDAPI_KEY, pc, requests, req, ci, fetched,
                               all_tracts, errors, neighborhoods, enrich, market, response,
                               listings, threads>>
                /\ UNCHANGED <<_listings_cache, _tract_boundaries_cache,
                               _location_id_cache, lookup, clockVars, scoreVars, aggVars>>

FetchTick ==
    /\ ticks < MaxTicks
    /\ \E j \in FetchJumps : now' = now + j
    /\ ticks' = ticks + 1
    /\ UNCHANGED <<cacheVars, scoreVars, aggVars, anVars>>

FetchNext == FetchCall \/ FetchTick

SpecFetch == FetchInit /\ [][FetchNext]_vars

\* the call found no entry, or one older than the TTL
Missed(f) ==
    \/ f.entry = None
    \/ f.at - fromisoformat(f.entry[1].cached_at) > timedelta_hours(CACHE_DURATION_HOURS)

IsTransient(a) == a \in FetchFailures
IsSuccess(a) == a.exc = "" /\ a.status = 200 /\ a.body.is_list /\ Len(a.body.items) >= 2

(* C2: when a call misses the cache and the upstream answers 503 on the
   first k attempts (k < 3) and then a success with at least 2 rows, the call
   returns exactly that dataset and stores it under the county with the time
   of the call; and a call that finds an entry no older than the 24-hour TTL
   returns the stored dataset without any network call. *)
C2_RetryThenSuccess ==
    fetch.county_fips # "" =>
        /\ ( /\ Missed(fetch)
             /\ fetch.answers # <<>>
             /\ \A i \in 1..(Len(fetch.answers) - 1) :
                   fetch.answers[i].exc = "" /\ fetch.answers[i].status = 503
             /\ IsSuccess(fetch.answers[Len(fetch.answers)]) )
           => LET data == fetch.answers[Len(fetch.answers)].body.items
              IN  /\ fetch.ret = Some(data)
                  /\ fetch.raised = ""
                  /\ Len(fetch.calls) = Len(fetch.answers)
                  /\ _census_cache[fetch.county_fips] =
                        Some([data |-> data, cached_at |-> isoformat(fetch.at)])
        /\ ~Missed(fetch)
           => /\ fetch.ret = Some(fetch.entry[1].data)
              /\ fetch.calls = <<>>
              /\ fetch.raised = ""
              /\ _census_cache[fetch.county_fips] = fetch.entry

\* a call that replaced an expired entry after two 503 answers, having slept
\* 1 and 2 seconds
C2_Witness ==
    /\ fetch.county_fips # ""
    /\ fetch.entry # None /\ Missed(fetch)
    /\ Len(fetch.answers) = 3
    /\ fetch.answers[1].status = 503 /\ fetch.answers[2].status = 503
    /\ IsSuccess(fetch.answers[3])
    /\ fetch.ret = Some(fetch.answers[3].body.items)
    /\ fetch.ret # Some(fetch.entry[1].data)
    /\ fetch.calls = <<[timeout |-> 60, slept |-> 1], [timeout |-> 120, slept |-> 2],
                      [timeout |-> 180, slept |-> 0]>>

(* C3: when each of the 3 attempts of a call fails with a transient failure
   (HTTP 503, a timeout, another network-level failure, in any mix), the
   call returns None, raises nothing, and has made exactly 3 network
   attempts. *)
C3_RetryExhaustion ==
    ( /\ fetch.county_fips # ""
      /\ Len(fetch.answers) = max_retries
      /\ \A i \in 1..Len(fetch.answers) : IsTransient(fetch.answers[i]) )
    => /\ fetch.ret = None
       /\ fetch.raised = ""
       /\ Len(fetch.calls) = 3
       /\ _census_cache[fetch.county_fips] = None

\* a timeout, a 503 and a connection failure, in that order
C3_Witness ==
    /\ fetch.county_fips # ""
    /\ Len(fetch.answers) = 3
    /\ fetch.answers[1].exc = "Timeout"
    /\ fetch.answers[2].status = 503
    /\ fetch.answers[3].exc = "ConnectionError"
    /\ fetch.ret = None
    /\ Len(fetch.calls) = 3

---------------------------------------------------------------------------
(* The analyze handler under any sequence of requests *)

\* how many requests are served
MaxRequests == 2

\* the failure the census calls of this specification meet
AnalysisFailures == {Answers(404, JsonArray(<<>>))}

\* a listing of a market response, and what one requests.post can do
Listing(d) == [days_on_market |-> d, list_days_on_market |-> None, dom |-> None]
MarketRaises(exc) == [exc |-> exc, status |-> 0, results |-> <<>>]
MarketAnswers(status, results) == [exc |-> "", status |-> status, results |-> results]
MarketOutcomes ==
    {MarketRaises("Timeout"), MarketAnswers(404, <<>>), MarketAnswers(429, <<>>),
     MarketAnswers(200, <<>>),
     MarketAnswers(200, <<Listing(Some(120)), Listing(None), Listing(Some(45))>>)}

\* the zip codes the tracts of the model map to
Zips ==
    {TRACT_TO_ZIP_MAPPING(f, CensusRows(f)[i][9][1])[1] :
        <<f, i>> \in {<<g, j>> \in CountyFips \X (1..3) : j <= Len(CensusRows(g))}}

\* the query parameters of a request, as sent: None when left out
RawRequest(top, price, min_score, marketdata, groupneighborhood, max_market_lookups) ==
    [top |-> top, price |-> price, min_score |-> min_score, marketdata |-> marketdata,
     groupneighborhood |-> groupneighborhood, max_market_lookups |-> max_market_lookups]

\* the requests served: the defaults; tracts with a score floor and top=0;
\* market data with a budget of 1 and swapped prices; market data with the
\* default budget and top=80; market data with a budget of -1; neighborhoods
\* mode with min_score=50
RawRequests ==
    {RawRequest(None, <<150, 200>>, None, None, None, None),
     RawRequest(Some(0), <<150, 200>>, Some(700), None, Some(FALSE), None),
     RawRequest(Some(1), <<200, 150>>, None, Some(TRUE), None, Some(1)),
     RawRequest(Some(80), <<150, 200>>, None, Some(TRUE), None, None),
     RawRequest(None, <<150, 200>>, None, Some(TRUE), None, Some(0 - 1)),
     RawRequest(None, <<150, 200>>, Some(500), None, None, None)}

\* the "inputs" block of the handler
parse_request(raw) ==
    LET top == IF raw.top = None THEN 50 ELSE raw.top[1]
        lo == raw.price[1]
        hi == raw.price[2]
        top_n == Max(1, Min(top, 50))
        include_market_data == IF raw.marketdata = None THEN FALSE ELSE raw.marketdata[1]
    IN  [top |-> top,
         top_n |-> top_n,
         price_min |-> IF lo > hi THEN hi ELSE lo,
         price_max |-> IF lo > hi THEN lo ELSE hi,
         min_score |-> IF raw.min_score = None THEN 0 ELSE raw.min_score[1],
         \* if top_n > 50: include_market_data = False
         include_market_data |-> IF top_n > 50 THEN FALSE ELSE include_market_data,
         do_group |-> IF raw.groupneighborhood = None THEN TRUE
                      ELSE raw.groupneighborhood[1],
         max_market_lookups |->
             Min(IF raw.max_market_lookups = None THEN MAX_MARKET_LOOKUPS_DEFAULT
                 ELSE raw.max_market_lookups[1], 50)]

Init ==
    /\ now = 0 /\ ticks = 0
    /\ _census_cache = [k \in CountyFips |-> None]
    /\ _listings_cache = [k \in ProbeZips |-> None]
    /\ _tract_boundaries_cache = [k \in ProbeGeoids |-> None]
    /\ _location_id_cache = [k \in ProbeLocations |-> None]
    /\ lookup = NoLookup
    /\ ScoreIdle /\ AggIdle
    /\ HandlerIdle
    /\ _dom_cache = [z \in Zips |-> None]
    /\ RAPIDAPI_KEY \in BOOLEAN

otherVars == <<scoreVars, aggVars, _listings_cache, _tract_boundaries_cache,
               _location_id_cache, lookup, RAPIDAPI_KEY, listings, threads>>

\* the clock advances between two requests
AnalysisTick ==
    /\ pc = "done"
    /\ ticks < MaxTicks
    /\ \E j \in FetchJumps : now' = now + j
    /\ ticks' = ticks + 1
    /\ UNCHANGED <<_census_cache, _dom_cache, pc, requests, req, ci, fetch, fetched,
                   all_tracts, errors, neighborhoods, enrich, market, response, otherVars>>

\* a request arrives: the inputs are read and the lists start empty
StartAnalysis ==
    /\ pc \in {"idle", "done"}
    /\ requests < MaxRequests
    /\ \E raw \in RawRequests : req' = parse_request(raw)
    /\ requests' = requests + 1
    /\ pc' = "counties"
    /\ ci' = 1
    /\ fetch' = NoFetch /\ fetched' = <<>>
    /\ all_tracts' = <<>> /\ errors' = <<>> /\ neighborhoods' = <<>>
    /\ enrich' = NoEnrich /\ market' = NoMarket /\ response' = None
    /\ UNCHANGED <<clockVars, _census_cache, _dom_cache, otherVars>>

\* the response of the top-level `except Exception`
error_response(message) ==
    [status |-> "error", status_code |-> 500, message |-> message,
     total_tracts_analyzed |-> 0, grouped |-> FALSE, results |-> <<>>,
     summary |-> summary_of(<<>>, <<>>), market_data_enabled |-> FALSE,
     errors |-> None]

\* the two successful responses; `errors or None` is None for an empty list
success_response(grouped, shown, all, errs) ==
    [status |-> "success", status_code |-> 200, message |-> "",
     total_tracts_analyzed |-> Len(all_tracts), grouped |-> grouped,
     results |-> shown, summary |-> summary_of(shown, all),
     market_data_enabled |-> req.include_market_data /\ RAPIDAPI_KEY,
     errors |-> IF errs = <<>> THEN None ELSE Some(errs)]

\* one turn of the loop over CENTRAL_IN_COUNTIES: the fetch, then the rows
FetchCounty ==
    /\ pc = "counties"
    /\ ci <= Len(COUNTIES)
    /\ LET county_name == COUNTIES[ci][1]
           county_fips == COUNTIES[ci][2]
       IN  \E answers \in IF get_cached_census_data(_census_cache, county_fips, now).ret # None
                          THEN {<<>>}
                          ELSE Scripts(AnalysisFailures, county_fips) :
             LET r == fetch_census_data_with_retry(_census_cache, county_fips, answers, now)
             IN  /\ _census_cache' = r.cache
                 /\ fetch' = fetch_record(county_fips, answers, r)
                 /\ fetched' = Append(fetched, [county_name |-> county_name,
                                                ret |-> r.ret, raised |-> r.raised])
                 /\ IF r.raised # ""
                    THEN /\ response' = Some(error_response(r.raised))
                         /\ pc' = "done"
                         /\ UNCHANGED <<ci, all_tracts, errors>>
                    ELSE /\ IF r.ret = None
                            THEN /\ errors' = Append(errors, Msg("failed_to_fetch", county_name))
                                 /\ UNCHANGED all_tracts
                            ELSE /\ all_tracts' = all_tracts
                                        \o tract_items(r.ret[1], county_name, req.price_max)
                                 /\ UNCHANGED errors
                         /\ ci' = ci + 1
                         /\ pc' = IF ci = Len(COUNTIES) THEN "rank" ELSE "counties"
                         /\ UNCHANGED response
    /\ UNCHANGED <<clockVars, _dom_cache, requests, req, neighborhoods, enrich, market,
                   otherVars>>

\* after the loop: sort, filter, and either answer with tracts or group
Rank ==
    /\ pc = "rank"
    /\ LET sorted_tracts == sort_by_score(all_tracts)
           filtered == filter_min_score(sorted_tracts, req.min_score)
       IN  /\ all_tracts' = sorted_tracts
           /\ IF ~req.do_group
              THEN /\ response' = Some(success_response(FALSE, PySlice(filtered, req.top_n),
                                                        filtered, errors))
                   /\ pc' = "done"
                   /\ UNCHANGED <<neighborhoods, enrich>>
              ELSE /\ \E l \in neighborhood_lists(filtered, group_keys(filtered, 1, <<>>), 1) :
                        /\ neighborhoods' = sort_by_score(l)
                        /\ enrich' =
                              IF req.include_market_data /\ RAPIDAPI_KEY /\ l # <<>>
                              THEN LET fetch_limit == Min(Min(req.max_market_lookups, Len(l)), 15)
                                   IN  [on |-> TRUE, todo |-> Len(PySlice(l, fetch_limit)),
                                        i |-> 1, calls |-> 0, looked |-> 0,
                                        rate_limit_hit |-> FALSE, saw_429 |-> FALSE]
                              ELSE NoEnrich
                   /\ pc' = "enrich"
                   /\ UNCHANGED response
    /\ UNCHANGED <<clockVars, _census_cache, _dom_cache, requests, req, ci, fetch, fetched,
                   errors, market, otherVars>>

\* one turn of the enrichment loop, for neighborhoods[enrich.i]
Enrich ==
    /\ pc = "enrich"
    /\ enrich.i <= enrich.todo
    /\ LET n == neighborhoods[enrich.i]
           zip_code == n.zip_guess
       IN  IF zip_code = None
           THEN \* no zip_guess, and the member tracts carry no zip_code
                /\ enrich' = [enrich EXCEPT !.i = @ + 1]
                /\ UNCHANGED <<neighborhoods, _dom_cache, market>>
           ELSE \E resp \in MarketOutcomes :
                  LET m == get_market_stats_for_zip(_dom_cache, RAPIDAPI_KEY,
                                                    zip_code[1], resp)
                      dom == m.median_days_on_market
                  IN  /\ _dom_cache' = m.cache
                      /\ market' = [zip_code |-> zip_code[1],
                                    known |-> _dom_cache[zip_code[1]] # None,
                                    requested |-> m.requested,
                                    answer |-> IF m.requested THEN resp ELSE NoAnswer,
                                    ret |-> dom]
                      /\ IF dom # None
                         THEN /\ neighborhoods' =
                                   [neighborhoods EXCEPT ![enrich.i] =
                                       [n EXCEPT !.days_on_market = Some(dom[1]),
                                                 !.insights = enriched_insights(n, dom[1]),
                                                 !.warnings = enriched_warnings(n, dom[1])]]
                              /\ enrich' = [enrich EXCEPT !.i = @ + 1, !.calls = @ + 1,
                                                          !.looked = @ + 1]
                         ELSE /\ UNCHANGED neighborhoods
                              /\ enrich' = [enrich EXCEPT
                                               !.i = @ + 1, !.calls = @ + 1,
                                               !.saw_429 = @ \/ (m.requested /\ resp.exc = ""
                                                                 /\ resp.status = 429)]
    /\ UNCHANGED <<clockVars, _census_cache, requests, req, ci, fetch, fetched, all_tracts,
                   errors, response, pc, otherVars>>

\* after the enrichment loop: the rate-limit note, the truncation, the answer
Respond ==
    /\ pc = "enrich"
    /\ enrich.i > enrich.todo
    /\ errors' = IF enrich.on /\ enrich.rate_limit_hit /\ enrich.looked = 0
                 THEN Append(errors, Msg("rate_limit_exceeded", ""))
                 ELSE errors
    /\ response' = Some(success_response(TRUE, PySlice(neighborhoods, req.top_n),
                                         neighborhoods, errors'))
    /\ pc' = "done"
    /\ UNCHANGED <<clockVars, _census_cache, _dom_cache, requests, req, ci, fetch, fetched,
                   all_tracts, neighborhoods, enrich, market, otherVars>>

Next ==
    \/ StartAnalysis
    \/ FetchCounty
    \/ Rank
    \/ Enrich
    \/ Respond
    \/ AnalysisTick

Spec == Init /\ [][Next]_vars

---------------------------------------------------------------------------
(* Claims about the handler *)

\* how many rows the county loop got from the turns 1..i that returned data
RECURSIVE RowsFetched(_, _)
RowsFetched(f, i) ==
    IF i = 0 THEN 0
    ELSE RowsFetched(f, i - 1) + (IF f[i].ret = None THEN 0 ELSE Len(f[i].ret[1]) - 1)

Count(q, x) == Cardinality({j \in 1..Len(q) : q[j] = x})

(* C4: whichever counties' fetches yield None, the loop still takes every
   county in the configured order; all_tracts holds every row of every county
   that returned data; errors holds exactly one entry per county that
   returned None; and the response has status "success" and counts those rows
   in total_tracts_analyzed - also when every county returned None. *)
C4_PartialFailure ==
    ( /\ pc \in {"rank", "enrich", "done"}
      /\ \A i \in 1..Len(fetched) : fetched[i].raised = "" )
    => /\ Len(fetched) = Len(COUNTIES)
       /\ \A i \in 1..Len(COUNTIES) :
             /\ fetched[i].county_name = COUNTIES[i][1]
             /\ Count(errors, Msg("failed_to_fetch", COUNTIES[i][1]))
                   = (IF fetched[i].ret = None THEN 1 ELSE 0)
             /\ Cardinality({j \in 1..Len(all_tracts) :
                               all_tracts[j].county_name = COUNTIES[i][1]})
                   = (IF fetched[i].ret = None THEN 0 ELSE Len(fetched[i].ret[1]) - 1)
       /\ Len(all_tracts) = RowsFetched(fetched, Len(fetched))
       /\ response # None
          => /\ response[1].status = "success"
             /\ response[1].total_tracts_analyzed = RowsFetched(fetched, Len(fetched))

\* the first county failed, the second returned two rows, and the response
\* reports success, two tracts and one error
C4_Witness ==
    /\ pc = "done"
    /\ Len(fetched) = 2
    /\ fetched[1].ret = None /\ fetched[1].raised = ""
    /\ fetched[2].ret # None
    /\ response # None
    /\ response[1].status = "success"
    /\ response[1].total_tracts_analyzed = 2
    /\ response[1].errors = Some(<<Msg("failed_to_fetch", COUNTIES[1][1])>>)

\* an answer that says for good that there is no data: a 404, or a
\* successful response without content
NoDataAnswer(a) ==
    /\ a.exc = ""
    /\ \/ a.status = 404
       \/ a.status = 200 /\ a.body.is_list /\ Len(a.body.items) < 2
NoDataMarketAnswer(a) ==
    /\ a.exc = ""
    /\ \/ a.status = 404
       \/ a.status = 200 /\ days_of(a.results, 1) = <<>>

(* C5 (as claimed): after a county's census fetch or a zip code's market
   lookup was answered by a 404 or by a successful response without content,
   no entry for it is in the errors list, and the outcome is cached: the
   same call, repeated, makes no upstream request. *)
C5_DefinitiveAbsence ==
    /\ ( /\ pc \in {"counties", "rank"}
         /\ fetch.county_fips # ""
         /\ fetch.answers # <<>>
         /\ NoDataAnswer(fetch.answers[Len(fetch.answers)]) )
       => /\ Count(errors, Msg("failed_to_fetch", fetched[Len(fetched)].county_name)) = 0
          /\ \A again \in Scripts(AnalysisFailures, fetch.county_fips) :
                fetch_census_data_with_retry(_census_cache, fetch.county_fips,
                                             again, now).calls = <<>>
    /\ ( /\ pc = "enrich"
         /\ market.requested
         /\ NoDataMarketAnswer(market.answer) )
       => /\ \A j \in 1..Len(errors) : errors[j].rule = "failed_to_fetch"
          /\ \A again \in MarketOutcomes :
                ~get_market_stats_for_zip(_dom_cache, RAPIDAPI_KEY, market.zip_code,
                                          again).requested

(* C6 (as claimed): no exception raised while one county is fetched or one
   neighborhood is enriched leaves that unit of work: the fetch raises
   nothing, and no response has status "error". *)
C6_ExceptionsContained ==
    /\ fetch.raised = ""
    /\ response # None => response[1].status = "success"

---------------------------------------------------------------------------
(* The threshold rules of the two levels applied to the same metric values *)

RulesInit ==
    /\ \E mhv \in HomeValues, inc \in Incomes, vac \in VacancyPcts, dom \in DaysOnMarket :
          tract = [median_home_value |-> mhv, median_income |-> inc,
                   vacancy_pct |-> vac, days_on_market |-> dom,
                   neighborhood |-> "Wayne Township/Southwest", county_name |-> "Marion"]
    /\ price_max \in PriceMaxes
    /\ scored = None
    /\ AggIdle /\ ClockIdle /\ CacheIdle /\ AnIdle

\* the aggregate metrics of a group whose aggregates are the tract's values
SameMetrics(t, pmax) ==
    LET mhv == Or0(t.median_home_value)
    IN  [gap_ratio |-> Some(IF mhv <= 0 \/ pmax <= 0 THEN Frac(0, 1)
                            ELSE Frac(100 * mhv, pmax)),
         vac_pct |-> Some(Frac(t.vacancy_pct, 1)),
         med_home_val |-> IF t.median_home_value = None THEN None
                          ELSE Some(Frac(t.median_home_value[1], 1)),
         med_income |-> IF t.median_income = None THEN None
                        ELSE Some(Frac(t.median_income[1], 1)),
         dom |-> IF t.days_on_market = None THEN None
                 ELSE Some(Frac(t.days_on_market[1], 1))]

\* both rule sets are evaluated: the tract's by score_tract_flip_potential,
\* the aggregate's by the rules of aggregate_group, before the [:3] cut
ApplyRules ==
    /\ scored = None
    /\ scored' = Some(score_tract_flip_potential(tract, price_max))
    /\ LET m == SameMetrics(tract, price_max)
       IN  avgs' = Some([insights |-> group_insights(None, FALSE, m.gap_ratio, m.vac_pct,
                                                     m.med_home_val, m.med_income, m.dom),
                         warnings |-> group_warnings(None, m.gap_ratio, m.vac_pct,
                                                     m.med_home_val, m.med_income, m.dom)])
    /\ UNCHANGED <<tract, price_max, rows, agg>>
    /\ UNCHANGED <<clockVars, cacheVars, anVars>>

RulesNext == ApplyRules

SpecRules == RulesInit /\ [][RulesNext]_vars

\* the messages of a list, as a set
Fired(msgs) == {msgs[i] : i \in 1..Len(msgs)}

(* C11 (as claimed): for the same gap ratio, vacancy percentage, home value,
   income and days on market, the gap, vacancy, income and days-on-market
   insights and warnings fired for a tract are the ones fired for an
   aggregate. *)
C11_SameRules ==
    (scored # None /\ avgs # None) =>
        /\ Fired(scored[1].insights) = Fired(avgs[1].insights)
        /\ Fired(scored[1].warnings) = Fired(avgs[1].warnings)

---------------------------------------------------------------------------
(* Claims about the enrichment loop *)

(* C12 (as claimed): in one request the number of calls of
   get_market_stats_for_zip never exceeds the request's max_market_lookups,
   whatever integer the request carries (a budget below 0 allows no call),
   and never exceeds 15. *)
C12_EnrichmentBudget ==
    pc \in {"enrich", "done"} =>
        /\ enrich.calls <= Max(0, req.max_market_lookups)
        /\ enrich.calls <= 15

(* C13 (as claimed): once the market source has answered 429 to a lookup of
   the enrichment loop, no further lookup is made in that request, and the
   response has status "success" and exactly one rate-limit warning in its
   errors list. *)
C13_RateLimitStops ==
    /\ [][(pc = "enrich" /\ enrich.saw_429) => enrich'.calls = enrich.calls]_vars
    /\ []((pc = "done" /\ enrich.saw_429)
            => /\ response[1].status = "success"
               /\ Count(errors, Msg("rate_limit_exceeded", "")) = 1)

\* the score a neighborhood would carry were its member tracts scored with
\* d days on market
RescoredWith(n, d) ==
    LET filtered == filter_min_score(all_tracts, req.min_score)
        rs == group_rows(filtered, <<n.county_name, n.neighborhood>>)
        again == [i \in 1..Len(rs) |->
                    [rs[i] EXCEPT !.score =
                        score_tract_flip_potential(
                            [rs[i] EXCEPT !.days_on_market = Some(d)],
                            req.price_max).score]]
    IN  aggregate_group(again).score

(* C14 (as claimed): once the enrichment loop has set a neighborhood's
   days_on_market to a looked-up value d, the neighborhood's score is the one
   computed with the velocity sub-score of d in place of the neutral 0.5. *)
C14_EnrichmentRescores ==
    pc \in {"enrich", "done"} =>
        \A i \in 1..Len(neighborhoods) :
            neighborhoods[i].days_on_market # None
            => neighborhoods[i].score
                  = RescoredWith(neighborhoods[i], neighborhoods[i].days_on_market[1])

\* a step of the enrichment loop that called get_market_stats_for_zip
LookupStep == pc = "enrich" /\ pc' = "enrich" /\ enrich'.calls = enrich.calls + 1

(* C15: the days-on-market memo is permanent.  A call for a zip leaves a memo
   entry for it (a value or an explicit None); a call for a zip that has an
   entry returns the entry and makes no upstream request, whatever the clock
   says; and no step changes or removes an entry: at most one upstream
   request is ever made per zip. *)
C15_PermanentMemo ==
    /\ [][LookupStep =>
            LET z == market'.zip_code
            IN  /\ _dom_cache'[z] # None
                /\ _dom_cache[z] # None =>
                      /\ ~market'.requested
                      /\ market'.ret = _dom_cache[z][1]]_vars
    /\ [][\A z \in DOMAIN _dom_cache :
            _dom_cache[z] # None => _dom_cache'[z] = _dom_cache[z]]_vars

\* a later request, hours after the first, is answered from the memo
C15_Witness ==
    /\ pc = "enrich"
    /\ market.known
    /\ ~market.requested
    /\ market.ret # None
    /\ ticks > 0

---------------------------------------------------------------------------
(* Claims about eviction and replacement in the TTL-bounded caches *)

\* the dict behind each cache name, and the field that holds its timestamp
CacheOf(name, census, snapshots, boundaries, locations) ==
    CASE name = "census" -> census
      [] name = "listings" -> snapshots
      [] name = "boundary" -> boundaries
      [] OTHER -> locations
StampOf(name) == IF name = "census" THEN "cached_at" ELSE "ts"
CacheNames == {"census", "listings", "boundary", "location"}

(* C16 (as claimed): in each of the four TTL-bounded caches a lookup that
   finds an entry older than the TTL returns absent and deletes the entry,
   and an entry disappears only through such a lookup. *)
C16_LazyEviction ==
    [][\A name \in CacheNames :
          LET before == CacheOf(name, _census_cache, _listings_cache,
                                _tract_boundaries_cache, _location_id_cache)
              after == CacheOf(name, _census_cache', _listings_cache',
                               _tract_boundaries_cache', _location_id_cache')
          IN  \A k \in DOMAIN before :
                LET expired == /\ before[k] # None
                               /\ AgeOf(before, k, StampOf(name), now) > TTL(name)
                    looked == /\ lookup'.cache = name
                              /\ lookup'.key = k
                              /\ lookup'.stored = None
                IN  /\ (looked /\ expired) => (lookup'.ret = None /\ after[k] = None)
                    /\ (before[k] # None /\ after[k] = None) => (looked /\ expired)]_vars

(* C17: in the census and the listings cache a set stores exactly the value
   and the time of the set, replacing whatever entry was there; a lookup made
   at the time of the set returns the stored value; a lookup of an entry
   older than the TTL returns absent.  So a set after an expiry is followed
   by lookups that see only the new value, its age counted from the new
   set. *)
C17_RoundTripNoMerge ==
    [][\A name \in {"census", "listings"} :
          LET before == CacheOf(name, _census_cache, _listings_cache,
                                _tract_boundaries_cache, _location_id_cache)
              after == CacheOf(name, _census_cache', _listings_cache',
                               _tract_boundaries_cache', _location_id_cache')
              stamp == StampOf(name)
          IN  \A k \in DOMAIN before :
                (lookup'.cache = name /\ lookup'.key = k) =>
                    IF lookup'.stored # None
                    THEN /\ after[k] # None
                         /\ DOMAIN after[k][1] = {"data", stamp}
                         /\ after[k][1].data = lookup'.stored[1]
                         /\ after[k][1][stamp] = isoformat(now)
                         /\ AgeOf(after, k, stamp, now) = 0
                    ELSE /\ (before[k] # None /\ AgeOf(before, k, stamp, now) = 0)
                              => lookup'.ret = Some(before[k][1].data)
                         /\ (before[k] # None /\ AgeOf(before, k, stamp, now) > TTL(name))
                              => lookup'.ret = None
                         /\ lookup'.ret # None
                              => lookup'.ret = Some(before[k][1].data)]_vars

\* a listings entry older than the TTL, holding another value, has just been
\* replaced
C17_Witness ==
    /\ lookup.cache = "listings"
    /\ lookup.stored = Some(2)
    /\ lookup.age > timedelta_hours(LISTINGS_CACHE_HOURS)
    /\ \E k \in DOMAIN _listings_cache :
          _listings_cache[k] = Some([ts |-> isoformat(now), data |-> 2])

---------------------------------------------------------------------------
(* A claim about the retrying fetch: responses without data rows *)

IsShort(a) == a.exc = "" /\ a.status = 200 /\ a.body.is_list /\ Len(a.body.items) < 2

(* C18: when the i-th attempt of a call of fetch_census_data_with_retry gets
   a successful response with fewer than 2 rows, the call returns None at
   once: attempt i is the last request made, no sleep follows it, nothing is
   stored, whatever the upstream would have answered to a further attempt
   and whichever attempt it is. *)
C18_EmptyNotRetried ==
    fetch.county_fips # "" =>
        \A i \in 1..Len(fetch.answers) :
            ( /\ IsShort(fetch.answers[i])
              /\ \A j \in 1..(i - 1) : IsTransient(fetch.answers[j]) )
            => /\ fetch.ret = None
               /\ fetch.raised = ""
               /\ Len(fetch.calls) = i
               /\ fetch.calls[i].slept = 0
               /\ _census_cache[fetch.county_fips] = None

\* the second attempt got a header without rows, and a third attempt would
\* have got a dataset
C18_Witness ==
    /\ fetch.county_fips # ""
    /\ Len(fetch.answers) = 3
    /\ IsTransient(fetch.answers[1])
    /\ fetch.answers[2] = Answers(200, JsonArray(<<ACS_HEADERS>>))
    /\ IsSuccess(fetch.answers[3])
    /\ Len(fetch.calls) = 2
    /\ fetch.ret = None

---------------------------------------------------------------------------
(* Claims about the shape of the scoring functions *)

\* the home values drawn, as numbers
KnownHomeValues == {v[1] : v \in HomeValues \ {None}}
\* |ratio - 1.35| of a home value, in hundredths of price_max
OffIdeal(mhv, pmax) == Abs(100 * mhv - 135 * pmax)
InBand(mhv, pmax) == pmax > 0 /\ 11 * pmax <= 10 * mhv /\ 10 * mhv <= 16 * pmax

(* C19: with ratio = median_home_value / price_max, taken as 0 when either
   is not positive, the gap sub-score is 0 below 1.1; on [1.1, 1.6] it is 1.0
   at 1.35 and only there, 0.8 at 1.30, and strictly smaller the farther the
   ratio is from 1.35; above 1.6 it never rises with the ratio and never
   drops below 0. *)
C19_GapShape ==
    scored # None =>
        LET mhv == Or0(tract.median_home_value)
            g == gap_score_of(mhv, price_max)
        IN  /\ scored[1].gap_score = RoundDiv(g, 10)
            /\ (mhv <= 0 \/ price_max <= 0) => (g = 0 /\ scored[1].gap_ratio = 0)
            /\ (price_max > 0 /\ 10 * mhv < 11 * price_max) => g = 0
            /\ InBand(mhv, price_max) =>
                  /\ g = ONE <=> 100 * mhv = 135 * price_max
                  /\ 100 * mhv = 130 * price_max => g = (8 * ONE) \div 10
                  /\ \A other \in KnownHomeValues :
                        ( /\ InBand(other, price_max)
                          /\ OffIdeal(other, price_max) > OffIdeal(mhv, price_max) )
                        => gap_score_of(other, price_max) < g
            /\ (price_max > 0 /\ 10 * mhv > 16 * price_max) =>
                  /\ g >= 0
                  /\ \A other \in KnownHomeValues :
                        other > mhv => gap_score_of(other, price_max) <= g
                  /\ 10 * mhv >= 36 * price_max => g = 0

\* a tract at ratio 1.30 was scored 0.8, with tracts drawn on both sides of
\* the ideal ratio
C19_Witness ==
    /\ scored # None
    /\ price_max > 0
    /\ 100 * Or0(tract.median_home_value) = 130 * price_max
    /\ scored[1].gap_score = 800
    /\ \E lo \in KnownHomeValues, hi \in KnownHomeValues :
          /\ InBand(lo, price_max) /\ 100 * lo < 130 * price_max
          /\ InBand(hi, price_max) /\ 100 * hi > 135 * price_max
          /\ gap_score_of(hi, price_max) > 0

\* the school bonus, from the rating in tenths
SchoolBonus(rating) ==
    IF rating = None THEN 0
    ELSE IF rating[1] >= 80 THEN 5
    ELSE IF rating[1] >= 70 THEN 3
    ELSE IF rating[1] >= 60 THEN 1
    ELSE IF rating[1] <= 50 THEN 0 - 2
    ELSE 0

(* C20: the score is the weighted sum of the gap, vacancy, income and
   velocity sub-scores (0.50, 0.20, 0.20, 0.10) times 100, plus 3 when the
   neighborhood has a recent Starbucks, plus the school bonus (+5, +3, +1,
   -2 or 0), rounded to one decimal and then clamped to [0, 100]: the
   bonuses go in before the clamp. *)
C20_CompositeScore ==
    scored # None =>
        LET mhv == Or0(tract.median_home_value)
            weighted == 50 * gap_score_of(mhv, price_max)
                        + 20 * vacancy_score_of(tract.vacancy_pct)
                        + 20 * income_score_of(mhv, Or0(tract.median_income))
                        + 10 * velocity_score_of(tract.days_on_market)
            retail == IF has_recent_starbucks(tract.neighborhood, tract.county_name)
                      THEN 3 ELSE 0
            school == SchoolBonus(NEIGHBORHOOD_SCHOOL_RATINGS(tract.neighborhood))
            rounded == RoundDiv(weighted + (retail + school) * ONE, 1000)
        IN  /\ scored[1].score = Max(0, Min(1000, rounded))
            /\ scored[1].starbucks_bonus = retail
            /\ scored[1].school_bonus = school

\* the weighted sum alone is below 100 and the bonuses carry it past the cap
C20_Witness ==
    /\ scored # None
    /\ scored[1].score = 1000
    /\ tract.days_on_market = None
    /\ scored[1].starbucks_bonus + scored[1].school_bonus > 5

\* the days-on-market figures drawn that are known and positive
KnownPositiveDoms == {d[1] : d \in {x \in DaysOnMarket \ {None} : x[1] > 0}}

(* C21: the velocity sub-score is the neutral 0.5 when days-on-market is
   unknown; when it is known and positive it is 1.0 below 30 days, 0.7 up to
   60, 0.4 up to 90 and 0.2 beyond, and so never rises with the number of
   days. *)
C21_VelocityScore ==
    scored # None =>
        LET dom == tract.days_on_market
            v == velocity_score_of(dom)
        IN  /\ scored[1].velocity_score = RoundDiv(v, 10)
            /\ dom = None => v = ONE \div 2
            /\ (dom # None /\ dom[1] > 0) =>
                  /\ dom[1] < 30 => v = ONE
                  /\ (30 <= dom[1] /\ dom[1] <= 60) => v = (7 * ONE) \div 10
                  /\ (60 < dom[1] /\ dom[1] <= 90) => v = (4 * ONE) \div 10
                  /\ dom[1] > 90 => v = (2 * ONE) \div 10
                  /\ \A later \in KnownPositiveDoms :
                        later >= dom[1] => velocity_score_of(Some(later)) <= v

\* a tract without a figure was scored, and so could one with a slow market
C21_Witness ==
    /\ scored # None
    /\ tract.days_on_market = None
    /\ scored[1].velocity_score = 500
    /\ \E d \in KnownPositiveDoms : velocity_score_of(Some(d)) < ONE \div 2

\* the distance of a vacancy percentage (tenths) to the nearer edge of the
\* band 8.0 .. 15.0
BandDistance(vacancy_pct) ==
    IF vacancy_pct < 80 THEN 80 - vacancy_pct
    ELSE IF vacancy_pct > 150 THEN vacancy_pct - 150
    ELSE 0

(* C22: the vacancy sub-score is 1.0 for every vacancy percentage in
   [8.0, 15.0]; outside it is 1 - (distance to the nearer band edge) / 15.0,
   clamped to [0, 1], about 0.33 at 25 percent; it never falls as the
   percentage rises towards 8 and never rises as it grows past 15. *)
C22_VacancyScore ==
    scored # None =>
        LET pct == tract.vacancy_pct
            v == vacancy_score_of(pct)
        IN  /\ scored[1].vacancy_score = RoundDiv(v, 10)
            /\ (80 <= pct /\ pct <= 150) => v = ONE
            /\ v = Max(0, Min(ONE, ONE - (BandDistance(pct) * ONE) \div 150))
            /\ pct = 250 => (3300 <= v /\ v <= 3400)
            /\ \A other \in VacancyPcts :
                  /\ (other <= pct /\ pct <= 80) => vacancy_score_of(other) <= v
                  /\ (150 <= pct /\ pct <= other) => vacancy_score_of(other) <= v

\* a tract at 25 percent was scored about 0.33
C22_Witness ==
    /\ scored # None
    /\ tract.vacancy_pct = 250
    /\ scored[1].vacancy_score = 333

---------------------------------------------------------------------------
(* Claims about the list a successful response returns *)

(* C23 (as claimed): the list of a successful response, of tracts or of
   neighborhoods, is in non-increasing order of score, has at most top_n
   entries with top_n in 1..50, holds only entries whose score is at least
   min_score, and summary.top_score is the score of its first entry (0 for
   an empty list); the enrichment loop keeps the neighborhoods in that
   order. *)
C23_ResultList ==
    /\ pc = "enrich" =>
          \A i \in 1..Len(neighborhoods), j \in 1..Len(neighborhoods) :
              i < j => neighborhoods[i].score >= neighborhoods[j].score
    /\ (pc = "done" /\ response # None /\ response[1].status = "success") =>
          LET r == response[1].results
          IN  /\ \A i \in 1..Len(r), j \in 1..Len(r) : i < j => r[i].score >= r[j].score
              /\ 1 <= req.top_n /\ req.top_n <= 50
              /\ Len(r) <= req.top_n
              /\ \A i \in 1..Len(r) : r[i].score >= req.min_score
              /\ response[1].summary.top_score = IF r = <<>> THEN 0 ELSE r[1].score

(* C24 (as claimed): a request that asks for more than 50 results has its
   market-data switch turned off, so the handler makes no market lookup for
   it even when market data was asked for. *)
C24_MarketDataAutoDisable ==
    req.top > 50 =>
        /\ ~req.include_market_data
        /\ enrich.calls = 0

---------------------------------------------------------------------------
(* Claims about the insights and warnings of a neighborhood entry *)

\* the member tracts of a neighborhood entry, as the grouping saw them
MemberRows(n) ==
    group_rows(filter_min_score(all_tracts, req.min_score),
               <<n.county_name, n.neighborhood>>)

\* the lists the rules that last ran for an entry generated: those of the
\* enrichment loop once it has set days_on_market, those of aggregate_group
\* before
GeneratedFor(n) ==
    IF n.days_on_market # None
    THEN [insights |-> enriched_insight_rules(n, n.days_on_market[1]),
          warnings |-> enriched_warning_rules(n, n.days_on_market[1])]
    ELSE group_messages(MemberRows(n))

IsPrefixOf3(short, full) ==
    /\ Len(short) <= 3
    /\ Len(short) = IF Len(full) < 3 THEN Len(full) ELSE 3
    /\ \A k \in 1..Len(short) : short[k] = full[k]

(* C25: every neighborhood entry, enriched or not, carries at most 3
   insights and at most 3 warnings, and each list is the first entries, in
   the order the rules are evaluated, of the list the rules generated. *)
C25_InsightTruncation ==
    (pc \in {"enrich", "done"} /\ req.do_group) =>
        \A i \in 1..Len(neighborhoods) :
            /\ IsPrefixOf3(neighborhoods[i].insights, GeneratedFor(neighborhoods[i]).insights)
            /\ IsPrefixOf3(neighborhoods[i].warnings, GeneratedFor(neighborhoods[i]).warnings)

\* the response holds an entry whose rules generated more than 3 insights,
\* and an enriched entry
C25_Witness ==
    /\ pc = "done"
    /\ req.do_group
    /\ response # None
    /\ response[1].status = "success"
    /\ \E i \in 1..Len(response[1].results) :
          /\ response[1].results[i] = neighborhoods[i]
          /\ Len(GeneratedFor(neighborhoods[i]).insights) > 3
    /\ \E i \in 1..Len(response[1].results) :
          response[1].results[i].days_on_market # None

---------------------------------------------------------------------------
(* A claim about the timing of the retrying fetch *)

(* C26: in one call of fetch_census_data_with_retry the attempt of
   zero-based index a is made with a timeout of 60 * (a + 1) seconds; an
   attempt that fails transiently and is not the last one is followed by a
   sleep of 2^a seconds and then by the next attempt; no sleep follows the
   last attempt made; and a call makes at most 3 attempts. *)
C26_BackoffSchedule ==
    fetch.county_fips # "" =>
        /\ Len(fetch.calls) <= max_retries
        /\ Len(fetch.calls) <= Len(fetch.answers)
        /\ \A i \in 1..Len(fetch.calls) :
              LET a == i - 1
              IN  /\ fetch.calls[i].timeout = REQUEST_TIMEOUT * (a + 1)
                  /\ (IsTransient(fetch.answers[i]) /\ a < max_retries - 1)
                        => /\ fetch.calls[i].slept = 2 ^ a
                           /\ Len(fetch.calls) > i
                  /\ i < Len(fetch.calls) => fetch.calls[i].slept = 2 ^ a
                  /\ i = Len(fetch.calls) => fetch.calls[i].slept = 0

\* three attempts: timeouts of 60, 120 and 180 seconds, sleeps of 1 and 2
C26_Witness ==
    /\ fetch.county_fips # ""
    /\ fetch.calls = <<[timeout |-> 60, slept |-> 1], [timeout |-> 120, slept |-> 2],
                       [timeout |-> 180, slept |-> 0]>>
    /\ \A i \in 1..3 : IsTransient(fetch.answers[i])

---------------------------------------------------------------------------
(* THE LISTINGS ENDPOINT: listings_endpoint *)

LISTINGS_CACHE_VERSION == "v3"

\* f"{LISTINGS_CACHE_VERSION}:{zip_code}" (no tract parameter)
listings_cache_key(zip_code) == <<LISTINGS_CACHE_VERSION, zip_code>>

\* a property record of the upstream response; prices in thousands
Property(list_price, price, dom) ==
    [list_price |-> list_price, price |-> price, days_on_market |-> dom]

\* what requests.post does for the endpoint: it raises, or answers with a
\* status and a body; raw is None for a JSON null, else <<the results list>>
ListingsRaises(exc) == [exc |-> exc, status |-> 0, raw |-> None]
ListingsAnswers(status, raw) == [exc |-> "", status |-> status, raw |-> raw]

empty_data ==
    [results |-> <<>>,
     counts |-> [active_total |-> 0, under_budget |-> 0, in_target_band |-> 0]]

\* the loop over props: a record without a numeric price is skipped
RECURSIVE listing_items(_, _, _)
listing_items(props, i, zip_code) ==
    IF i > Len(props) THEN <<>>
    ELSE LET p == props[i]
             price == PyOr(p.list_price, p.price)
             rest == listing_items(props, i + 1, zip_code)
         IN  IF price = None THEN rest
             ELSE <<[price |-> price[1], zip |-> zip_code,
                     dom |-> p.days_on_market]>> \o rest

\* sorted(items, key=lambda x: x["price"]): stable, ascending
RECURSIVE insert_by_price(_, _)
insert_by_price(q, x) ==
    IF q = <<>> THEN <<x>>
    ELSE IF Head(q).price <= x.price THEN <<Head(q)>> \o insert_by_price(Tail(q), x)
    ELSE <<x>> \o q

RECURSIVE sort_by_price(_, _)
sort_by_price(q, n) ==
    IF n = 0 THEN <<>> ELSE insert_by_price(sort_by_price(q, n - 1), q[n])

\* the data dict built from the props of a successful response (no
\* price_max, arv parameters: the two band counts stay 0)
listings_data(props, zip_code, limit) ==
    LET items == listing_items(props, 1, zip_code)
    IN  [results |-> PySlice(sort_by_price(items, Len(items)), limit),
         counts |-> [active_total |-> Len(items), under_budget |-> 0,
                     in_target_band |-> 0]]

\* whether the name location_id_data, which line 2205 reads, is bound: the
\* function never assigns it and the module has no global of that name, so
\* reading it raises NameError
location_id_data_bound == FALSE

listings_response(status, status_code, message, data) ==
    [status |-> status, status_code |-> status_code, message |-> message,
     counts |-> data.counts, results |-> data.results]

\* One call of the endpoint with the zip and limit parameters.  Returns the
\* response, the listings cache as the call leaves it, and whether the
\* upstream was called.
listings_endpoint(cache, configured, zip_code, limit_param, upstream, t) ==
    IF ~configured
    THEN [response |-> listings_response("error", 400,
                                         "Market/listings API not configured", empty_data),
          cache |-> cache, requested |-> FALSE]
    ELSE IF zip_code = ""
    THEN [response |-> listings_response("error", 400, "zip is required", empty_data),
          cache |-> cache, requested |-> FALSE]
    ELSE
    LET limit == Max(1, Min(IF limit_param = None THEN 12 ELSE limit_param[1], 50))
        cache_key == listings_cache_key(zip_code)
        cached == _cache_get_listings(cache, cache_key, t)
        success(data, c, requested) ==
            [response |-> listings_response("success", 200, "", data),
             cache |-> c, requested |-> requested]
        stored(data) == _cache_set_listings(cached.cache, cache_key, data, t)
    IN  IF cached.ret # None THEN success(cached.ret[1], cached.cache, FALSE)
        ELSE IF upstream.exc # "" THEN success(empty_data, cached.cache, TRUE)
        ELSE IF upstream.status = 404 THEN success(empty_data, stored(empty_data), TRUE)
        ELSE IF upstream.status = 429
        THEN [response |-> listings_response("rate_limit", 200,
                                             "Daily listing limit reached", empty_data),
              cache |-> cached.cache, requested |-> TRUE]
        ELSE IF upstream.status >= 400               \* raise_for_status()
        THEN success(empty_data, cached.cache, TRUE)
        ELSE IF upstream.raw = None
        THEN [response |-> listings_response("error", 200,
                                             "API returned empty response", empty_data),
              cache |-> stored(empty_data), requested |-> TRUE]
        ELSE IF ~location_id_data_bound
        THEN \* NameError after the loop over props, caught by `except Exception`
             success(empty_data, cached.cache, TRUE)
        ELSE LET data == listings_data(upstream.raw[1], zip_code, limit)
             IN  success(data, stored(data), TRUE)

---------------------------------------------------------------------------
(* The listings endpoint under any sequence of requests and clock advances *)

ListingZips == {"46201", "46220"}
LimitParams == {None, Some(2)}
ListedProperties ==
    <<Property(Some(300), None, Some(10)), Property(None, Some(150), None),
      Property(None, None, Some(5)), Property(Some(200), Some(999), None)>>
ListingsOutcomes ==
    {ListingsRaises("Timeout"), ListingsAnswers(404, None), ListingsAnswers(429, None),
     ListingsAnswers(500, None), ListingsAnswers(200, None),
     ListingsAnswers(200, Some(<<>>)), ListingsAnswers(200, Some(ListedProperties))}
NoUpstream == ListingsAnswers(0, None)

ListingsInit ==
    /\ ClockIdle
    /\ _census_cache = [k \in ProbeFips |-> None]
    /\ _listings_cache = [k \in {listings_cache_key(z) : z \in ListingZips} |-> None]
    /\ _tract_boundaries_cache = [k \in ProbeGeoids |-> None]
    /\ _location_id_cache = [k \in ProbeLocations |-> None]
    /\ lookup = NoLookup
    /\ ScoreIdle /\ AggIdle /\ HandlerIdle
    /\ _dom_cache = <<>>
    /\ RAPIDAPI_KEY \in BOOLEAN

ListingsRequest ==
    \E zip_code \in ListingZips \cup {""}, limit_param \in LimitParams,
       upstream \in ListingsOutcomes :
        LET r == listings_endpoint(_listings_cache, RAPIDAPI_KEY, zip_code, limit_param,
                                   upstream, now)
        IN  /\ _listings_cache' = r.cache
            /\ listings' = [called |-> TRUE, zip_code |-> zip_code,
                            limit_param |-> limit_param, at |-> now,
                            requested |-> r.requested,
                            answer |-> IF r.requested THEN upstream ELSE NoUpstream,
                            response |-> r.response]
            /\ UNCHANGED <<clockVars, scoreVars, aggVars, _census_cache,
                           _tract_boundaries_cache, _location_id_cache, lookup,
                           _dom_cache, RAPIDAPI_KEY, pc, requests, req, ci, fetch, fetched,
                           all_tracts, errors, neighborhoods, enrich, market, response,
                           threads>>

ListingsTick ==
    /\ ticks < MaxTicks
    /\ \E j \in {1, LISTINGS_CACHE_HOURS} : now' = now + j
    /\ ticks' = ticks + 1
    /\ UNCHANGED <<cacheVars, scoreVars, aggVars, anVars>>

ListingsNext == ListingsRequest \/ ListingsTick

SpecListings == ListingsInit /\ [][ListingsNext]_vars

\* a successful answer with at least one property that has a numeric price
PricedSuccess(a) ==
    /\ a.exc = "" /\ a.status = 200 /\ a.raw # None
    /\ \E i \in 1..Len(a.raw[1]) :
          PyOr(a.raw[1][i].list_price, a.raw[1][i].price) # None

(* C27 (as claimed): a listings request that misses the cache and gets a
   successful upstream response with at least one priced property returns
   the normalized records in ascending order of price, at most `limit` of
   them, and stores the snapshot, so that the same request repeated within
   6 hours returns the same results without an upstream call. *)
C27_ListingsSnapshot ==
    (listings.called /\ listings.requested /\ PricedSuccess(listings.answer)) =>
        LET limit == Max(1, Min(IF listings.limit_param = None THEN 12
                                ELSE listings.limit_param[1], 50))
            expected == listings_data(listings.answer.raw[1], listings.zip_code, limit)
        IN  /\ listings.response.status = "success"
            /\ listings.response.results = expected.results
            /\ Len(listings.response.results) >= 1
            /\ now - listings.at <= LISTINGS_CACHE_HOURS =>
                  \A again \in ListingsOutcomes :
                      LET r == listings_endpoint(_listings_cache, RAPIDAPI_KEY,
                                                 listings.zip_code, listings.limit_param,
                                                 again, now)
                      IN  /\ ~r.requested
                          /\ r.response.results = listings.response.results

---------------------------------------------------------------------------
(* get_cached_census_data run by concurrent requests, one dictionary
   operation per step *)

\* how many requests run at once
NumThreads == 2
Threads == 1..NumThreads

\* a thread outside the function; ret and raised are those of its last call
IdleThread == [pc |-> "idle", ret |-> None, raised |-> "", age |-> 0]

ConcInit ==
    /\ ClockIdle /\ CacheIdle /\ ScoreIdle /\ AggIdle
    /\ listings = NoListings
    /\ pc = "idle" /\ requests = 0 /\ req = NoRequest /\ ci = 0 /\ fetch = NoFetch
    /\ fetched = <<>> /\ all_tracts = <<>> /\ errors = <<>> /\ neighborhoods = <<>>
    /\ enrich = NoEnrich /\ market = NoMarket /\ response = None
    /\ _dom_cache = <<>> /\ RAPIDAPI_KEY = FALSE
    /\ threads = [t \in Threads |-> IdleThread]

concUnchanged == <<scoreVars, aggVars, _listings_cache, _tract_boundaries_cache,
                   _location_id_cache, lookup, _dom_cache, RAPIDAPI_KEY, pc, requests,
                   req, ci, fetch, fetched, all_tracts, errors, neighborhoods, enrich,
                   market, response, listings>>

\* a request enters get_cached_census_data(county_fips)
LookupBegin(t, county_fips) ==
    /\ threads[t].pc \in {"idle", "done"}
    /\ threads' = [threads EXCEPT ![t] = [IdleThread EXCEPT !.pc = "test"]]
    /\ UNCHANGED <<_census_cache, clockVars, concUnchanged>>

\* if county_fips not in _census_cache: return None
LookupTest(t, county_fips) ==
    /\ threads[t].pc = "test"
    /\ threads' = [threads EXCEPT ![t].pc =
                      IF _census_cache[county_fips] = None THEN "done" ELSE "read"]
    /\ UNCHANGED <<_census_cache, clockVars, concUnchanged>>

\* cache_entry = _census_cache[county_fips], then the comparison of its
\* cached_at with utcnow(): the value is returned, or the delete comes next
LookupRead(t, county_fips) ==
    /\ threads[t].pc = "read"
    /\ threads' = [threads EXCEPT ![t] =
          IF _census_cache[county_fips] = None
          THEN [@ EXCEPT !.pc = "done", !.raised = "KeyError"]
          ELSE LET cache_entry == _census_cache[county_fips][1]
                   age == now - fromisoformat(cache_entry.cached_at)
               IN  IF age > timedelta_hours(CACHE_DURATION_HOURS)
                   THEN [@ EXCEPT !.pc = "del"]
                   ELSE [@ EXCEPT !.pc = "done", !.ret = Some(cache_entry.data),
                                  !.age = age]]
    /\ UNCHANGED <<_census_cache, clockVars, concUnchanged>>

\* del _census_cache[county_fips]; return None
LookupDelete(t, county_fips) ==
    /\ threads[t].pc = "del"
    /\ IF _census_cache[county_fips] = None
       THEN /\ threads' = [threads EXCEPT ![t].pc = "done", ![t].raised = "KeyError"]
            /\ UNCHANGED _census_cache
       ELSE /\ threads' = [threads EXCEPT ![t].pc = "done"]
            /\ _census_cache' = [_census_cache EXCEPT ![county_fips] = None]
    /\ UNCHANGED <<clockVars, concUnchanged>>

\* cache_census_data(county_fips, data), by a request that fetched the data
ConcStore(county_fips) ==
    /\ \E v \in CacheValues :
          _census_cache' = cache_census_data(_census_cache, county_fips, v, now)
    /\ UNCHANGED <<threads, clockVars, concUnchanged>>

ConcTick ==
    /\ ticks < MaxTicks
    /\ \E j \in {1, CACHE_DURATION_HOURS} : now' = now + j
    /\ ticks' = ticks + 1
    /\ UNCHANGED <<_census_cache, threads, concUnchanged>>

ConcNext ==
    \/ \E t \in Threads, k \in ProbeFips : LookupBegin(t, k)
    \/ \E t \in Threads, k \in ProbeFips : LookupTest(t, k)
    \/ \E t \in Threads, k \in ProbeFips : LookupRead(t, k)
    \/ \E t \in Threads, k \in ProbeFips : LookupDelete(t, k)
    \/ \E k \in ProbeFips : ConcStore(k)
    \/ ConcTick

SpecConcurrent == ConcInit /\ [][ConcNext]_vars

(* C28 (as claimed): with two requests interleaved at single dictionary
   operations on the shared census cache, no lookup ends with an error, and
   every lookup returns None or a stored value no older than the TTL. *)
C28_ConcurrentLookups ==
    \A t \in DOMAIN threads :
        /\ threads[t].raised = ""
        /\ threads[t].ret # None
              => threads[t].age <= timedelta_hours(CACHE_DURATION_HOURS)

---------------------------------------------------------------------------
(* Claims about the messages of an enriched neighborhood entry *)

\* what the rules of aggregate_group produce for the aggregate metrics of
\* the rows rs, with days_on_market set to d
RederivedWith(rs, d) ==
    LET med_home_val == pop_weighted_avg(metric_pairs(rs, "median_home_value"))
        med_income == pop_weighted_avg(metric_pairs(rs, "median_income"))
        vac_pct == pop_weighted_avg(number_pairs(rs, "vacancy_pct"))
        gap_ratio == pop_weighted_avg(number_pairs(rs, "gap_ratio"))
        has_starbucks == \E i \in 1..Len(rs) : rs[i].has_starbucks
        school_rating == school_rating_aggregate(rs)
    IN  [insights |-> Take(group_insights(school_rating, has_starbucks, gap_ratio,
                                          vac_pct, med_home_val, med_income,
                                          Some(Frac(d, 1))), 3),
         warnings |-> Take(group_warnings(school_rating, gap_ratio, vac_pct,
                                          med_home_val, med_income,
                                          Some(Frac(d, 1))), 3)]

(* C29 (as claimed): once the enrichment loop has set a neighborhood's
   days_on_market to a looked-up value, the neighborhood's insights and
   warnings are those the rules of aggregate_group produce for its aggregate
   metrics with that days_on_market; no rule is skipped. *)
C29_EnrichmentFullRules ==
    (pc \in {"enrich", "done"} /\ req.do_group) =>
        \A i \in 1..Len(neighborhoods) :
            neighborhoods[i].days_on_market # None =>
                LET again == RederivedWith(MemberRows(neighborhoods[i]),
                                           neighborhoods[i].days_on_market[1])
                IN  /\ neighborhoods[i].insights = again.insights
                    /\ neighborhoods[i].warnings = again.warnings

---------------------------------------------------------------------------
(* C30 (as claimed): for two gap ratios r1 <= r2 with r1 >= 1.35, the gap
   sub-score at r1 is at least the gap sub-score at r2: past the ideal ratio
   the sub-score never rises with the ratio, the boundary at 1.6 between the
   two bands included. *)
C30_GapMonotonePastIdeal ==
    (scored # None /\ price_max > 0) =>
        LET mhv == Or0(tract.median_home_value)
        IN  \A other \in KnownHomeValues :
                (135 * price_max <= 100 * mhv /\ mhv <= other)
                => gap_score_of(other, price_max) <= gap_score_of(mhv, price_max)

====
